---- MODULE Spec2Model ----
(***************************************************************************)
(* A model of notnow's task store (src/src/tasks.rs): the ordered store of *)
(* shared task handles (Db<Task>), the reversible task operations          *)
(* (TaskOp), the bounded undo/redo log (Ops) and the Tasks facade.         *)
(*                                                                         *)
(* Representation.                                                         *)
(*   - An Rc<Task> is a handle: a positive index into `heap`.  heap[h] is  *)
(*     the TaskInner behind the handle's RefCell.  Rc::ptr_eq is equality  *)
(*     of handles; a deep copy (Task::clone) is the TaskInner value.       *)
(*   - Option<T> is a sequence of length at most one: <<>> is None and     *)
(*     <<v>> is Some(v).                                                   *)
(*   - Store positions are 0-based as in the source; the operators of Db   *)
(*     translate to the 1-based sequences of TLA+.                         *)
(*   - A failed unwrap() or an out-of-range index is a panic: the pure     *)
(*     operators return ok = FALSE together with the state reached when    *)
(*     the panic was raised, and the actions then set `panicked`.          *)
(*   - The `templates` field of TaskInner is the same shared registry in   *)
(*     every task of a Tasks object and is left out.                       *)
(***************************************************************************)
EXTENDS Integers, Sequences, FiniteSets, TLC

(***************************************************************************)
(* Constants of the program and bounds of the model.                       *)
(***************************************************************************)

\* const MAX_UNDO_STEP_COUNT: usize = 64 (the depth Tasks::with_serde uses).
MAX_UNDO_STEP_COUNT == 64

\* Bound: the depth of a log built directly with Ops::new(max_count), small
\* enough for eviction to happen within MaxOps operations.
SmallUndoCount == 1

\* Bound: the number of operations executed through the log in a behaviour.
MaxOps == 2

\* Bound: how deep callbacks of Tasks::iter are nested.
MaxBorrows == 2

\* Bound: the number of operations executed before a callback of
\* Tasks::iter is entered.
IterOps == 1

\* The model's usize is UsizeBits wide; NEXT_ID starts at usize::MAX / 2.
UsizeBits == 5

UsizeMax == 2 ^ UsizeBits - 1

\* The identifier of the registry's one template, the "complete" tag.
COMPLETE_TAG == 42

\* Bound: the number of templates of the registry a lone task's tags are
\* instantiated from.
MaxTags == 4

\* The tags of that registry: "complete" and the ones that follow it.
Tags == COMPLETE_TAG..(COMPLETE_TAG + MaxTags - 1)

\* Summaries a caller passes to add and update.
Summaries == {"x", "y"}

None == <<>>

Some(v) == <<v>>

IsSome(o) == o # <<>>

Unwrap(o) == o[1]

Range(s) == {s[i] : i \in 1..Len(s)}

Last(s) == s[Len(s)]

Front(s) == SubSeq(s, 1, Len(s) - 1)

VARIABLES
  heap,        \* Rc<Task> allocations: heap[h] is the TaskInner of handle h
  tasks,       \* TasksInner.tasks: the Db<Task>, a sequence of handles
  operations,  \* TasksInner.operations: [undo, redo, max_count]
  next_id,     \* Task::allocate_id's static NEXT_ID
  panicked,    \* a panic was raised: the program has terminated
  nops,        \* ghost: operations executed through the log so far
  ghost,       \* ghost: snapshots of the store kept beside the log
  last,        \* ghost: the most recent facade call, with its pre-state
  result,      \* what Tasks::with_serde returned: "Ok" or the ErrorKind
  borrow,      \* the RefCell of Tasks: the shared borrows outstanding
  task_borrow, \* the RefCells of the tasks: the handles of the tasks whose
               \* tags a callback of Task::tags is reading, innermost last
  ui           \* the widget or the configuration of the user interface
               \* that is being driven, None when there is none

vars ==
  <<heap, tasks, operations, next_id, panicked, nops, ghost, last, result,
    borrow, task_borrow, ui>>

(***************************************************************************)
(* Task (src/src/tasks.rs, 38-218)                                         *)
(***************************************************************************)

TaskInner(id, summary, tags) == [id |-> id, summary |-> summary, tags |-> tags]

\* Task::allocate_id: fetch_add on NEXT_ID (wrapping), then
\* NonZeroUsize::new(id).unwrap().
Task_allocate_id(next) ==
  [ok |-> next # 0, id |-> next, next |-> (next + 1) % (UsizeMax + 1)]

\* update_from copying the summary only.
Task_update_from_summary(hp, task, other) ==
  [hp EXCEPT ![task].summary = other.summary]

\* update_from writing the new summary into every task as well.
Task_update_from_all(hp, task, other) ==
  [h \in DOMAIN hp |->
     IF h = task THEN other ELSE [hp[h] EXCEPT !.summary = other.summary]]

\* Task::update_from: *borrow = other.into_inner(), the whole TaskInner.
Task_update_from(hp, task, other) == [hp EXCEPT ![task] = other]

\* Task::set_summary on a deep copy.
Task_set_summary(inner, summary) == [inner EXCEPT !.summary = summary]

\* Task::set_tags on a deep copy.
Task_set_tags(inner, tags) == [inner EXCEPT !.tags = tags]

\* Task::has_tag: BTreeSet::get(tag).is_some()
Task_has_tag(inner, tag) == tag \in inner.tags

\* set_tag reporting true whether or not the tag was set.
Task_set_tag_true(inner, tag) ==
  [ret |-> TRUE, inner |-> [inner EXCEPT !.tags = @ \cup {tag}]]

\* Task::set_tag: BTreeSet::insert, true when the tag was not in the set.
Task_set_tag(inner, tag) ==
  [ret |-> tag \notin inner.tags, inner |-> [inner EXCEPT !.tags = @ \cup {tag}]]

\* Task::unset_tag: BTreeSet::remove, true when the tag was in the set.
Task_unset_tag(inner, tag) ==
  [ret |-> tag \in inner.tags, inner |-> [inner EXCEPT !.tags = @ \ {tag}]]

(***************************************************************************)
(* Db<Task>: the ordered store of handles.                                 *)
(***************************************************************************)

\* Db::find: the first position holding the same handle (Rc::ptr_eq).
Db_find(db, task) ==
  IF \E i \in 1..Len(db) : db[i] = task
  THEN Some((CHOOSE i \in 1..Len(db) :
               db[i] = task /\ \A j \in 1..(i - 1) : db[j] # task) - 1)
  ELSE None

\* Db::get
Db_get(db, idx) == IF idx < Len(db) THEN Some(db[idx + 1]) ELSE None

\* Db::try_insert: None when the handle is already present; an index
\* beyond the length panics.
Db_try_insert(db, idx, task) ==
  IF idx > Len(db) \/ task \in Range(db)
  THEN [ok |-> FALSE, tasks |-> db]
  ELSE [ok |-> TRUE,
        tasks |-> SubSeq(db, 1, idx) \o <<task>> \o SubSeq(db, idx + 1, Len(db))]

\* Db::try_push
Db_try_push(db, task) == Db_try_insert(db, Len(db), task)

\* Db::remove: removes and returns the handle at idx; idx >= len panics.
Db_remove(db, idx) ==
  IF idx >= Len(db)
  THEN [ok |-> FALSE, tasks |-> db, task |-> None]
  ELSE [ok |-> TRUE,
        tasks |-> SubSeq(db, 1, idx) \o SubSeq(db, idx + 2, Len(db)),
        task |-> Some(db[idx + 1])]

(***************************************************************************)
(* add_task, remove_task, update_task and Target                           *)
(***************************************************************************)

Before(task) == [kind |-> "Before", task |-> task]

After(task) == [kind |-> "After", task |-> task]

\* add_task inserting at the target's index for After as well.
add_task_at_target(db, task, target) ==
  IF IsSome(target)
  THEN LET found == Db_find(db, Unwrap(target).task)
       IN IF ~IsSome(found)
          THEN [ok |-> FALSE, tasks |-> db]
          ELSE Db_try_insert(db, Unwrap(found), task)
  ELSE Db_try_push(db, task)

\* add_task: target is an Option<Target>.
add_task(db, task, target) ==
  IF IsSome(target)
  THEN LET found == Db_find(db, Unwrap(target).task)
       IN IF ~IsSome(found)
          THEN [ok |-> FALSE, tasks |-> db]
          ELSE LET idx == IF Unwrap(target).kind = "Before"
                          THEN Unwrap(found)
                          ELSE Unwrap(found) + 1
               IN Db_try_insert(db, idx, task)
  ELSE Db_try_push(db, task)

\* remove_task doing nothing when the task is not in the store.
remove_task_lenient(db, task) ==
  LET found == Db_find(db, task)
  IN IF ~IsSome(found)
     THEN [ok |-> TRUE, tasks |-> db, idx |-> 0]
     ELSE [ok |-> TRUE, tasks |-> Db_remove(db, Unwrap(found)).tasks,
           idx |-> Unwrap(found)]

\* remove_task
remove_task(db, task) ==
  LET found == Db_find(db, task)
  IN IF ~IsSome(found)
     THEN [ok |-> FALSE, tasks |-> db, idx |-> 0]
     ELSE [ok |-> TRUE, tasks |-> Db_remove(db, Unwrap(found)).tasks,
           idx |-> Unwrap(found)]

\* update_task taking its copy after the overwrite.
update_task_after(hp, task, other) ==
  [before |-> other, heap |-> Task_update_from(hp, task, other)]

\* update_task: deep-copies the task, overwrites it in place, returns the copy.
update_task(hp, task, other) ==
  [before |-> hp[task], heap |-> Task_update_from(hp, task, other)]

(***************************************************************************)
(* TaskOp                                                                  *)
(***************************************************************************)

TaskOp_add(task, after) == [kind |-> "Add", task |-> task, after |-> after]

TaskOp_remove(task) == [kind |-> "Remove", task |-> task, position |-> None]

TaskOp_update(task, updated) ==
  [kind |-> "Update", task |-> task, updated |-> updated, before |-> None]

TaskOp_move_(from, to) ==
  [kind |-> "Move", from |-> from, to |-> to, task |-> None]

\* The result of exec and undo: the store, the heap and the operation as the
\* call leaves them, and the value it returns (an Option<Rc<Task>>).
OpResult(ok, db, hp, op, ret) ==
  [ok |-> ok, tasks |-> db, heap |-> hp, op |-> op, ret |-> ret]

\* TaskOp::exec, Self::Add
exec_Add(op, db, hp) ==
  LET r == add_task(db, op.task,
                    IF IsSome(op.after) THEN Some(After(Unwrap(op.after)))
                    ELSE None)
  IN OpResult(r.ok, r.tasks, hp, op, Some(op.task))

\* TaskOp::exec, Self::Remove
exec_Remove(op, db, hp) ==
  LET r == remove_task(db, op.task)
  IN IF r.ok
     THEN OpResult(TRUE, r.tasks, hp, [op EXCEPT !.position = Some(r.idx)], None)
     ELSE OpResult(FALSE, db, hp, op, None)

\* exec of Update returning nothing.
exec_Update_none(op, db, hp) ==
  LET r == update_task(hp, op.task, op.updated)
  IN OpResult(TRUE, db, r.heap, [op EXCEPT !.before = Some(r.before)], None)

\* exec of Update handing its replacement over to the task and keeping
\* the task's former content in its place.
exec_Update_swap(op, db, hp) ==
  LET r == update_task(hp, op.task, op.updated)
  IN OpResult(TRUE, db, r.heap,
              [op EXCEPT !.before = Some(r.before), !.updated = r.before],
              Some(op.task))

\* TaskOp::exec, Self::Update
exec_Update(op, db, hp) ==
  LET r == update_task(hp, op.task, op.updated)
  IN OpResult(TRUE, db, r.heap, [op EXCEPT !.before = Some(r.before)],
              Some(op.task))

\* exec of Move inserting the task at its new place without removing it
\* from the old one.
exec_Move_copy(op, db, hp) ==
  LET moved == Db_get(db, op.from)
      found == Db_find(db, op.to.task)
  IN IF ~IsSome(moved) \/ ~IsSome(found)
     THEN OpResult(FALSE, db, hp, op, None)
     ELSE LET idx == IF op.to.kind = "Before"
                     THEN Unwrap(found)
                     ELSE Unwrap(found) + 1
          IN OpResult(TRUE,
                      SubSeq(db, 1, idx) \o moved \o SubSeq(db, idx + 1, Len(db)),
                      hp, [op EXCEPT !.task = moved], moved)

\* exec of Move looking the target up before the task is removed.
exec_Move_stale(op, db, hp) ==
  LET found == Db_find(db, op.to.task)
      removed == Db_remove(db, op.from)
  IN IF ~removed.ok \/ ~IsSome(found)
     THEN OpResult(FALSE, db, hp, op, None)
     ELSE LET moved == Unwrap(removed.task)
              idx == IF op.to.kind = "Before"
                     THEN Unwrap(found)
                     ELSE Unwrap(found) + 1
              r == Db_try_insert(removed.tasks, idx, moved)
          IN OpResult(r.ok, r.tasks, hp, [op EXCEPT !.task = Some(moved)],
                      Some(moved))

\* TaskOp::exec, Self::Move.  Moving a task onto itself fails the
\* debug_assert in a debug build and the unwrap in add_task otherwise: a
\* panic either way, after the task was removed.
exec_Move(op, db, hp) ==
  LET removed == Db_remove(db, op.from)
  IN IF ~removed.ok
     THEN OpResult(FALSE, db, hp, op, None)
     ELSE LET moved == Unwrap(removed.task)
              r == add_task(removed.tasks, moved, Some(op.to))
          IN OpResult(r.ok, r.tasks, hp, [op EXCEPT !.task = Some(moved)],
                      Some(moved))

\* <TaskOp as Op>::exec
TaskOp_exec(op, db, hp) ==
  CASE op.kind = "Add" -> exec_Add(op, db, hp)
    [] op.kind = "Remove" -> exec_Remove(op, db, hp)
    [] op.kind = "Update" -> exec_Update(op, db, hp)
    [] op.kind = "Move" -> exec_Move(op, db, hp)

\* Undo of Add removing the last entry of the store.
undo_Add_last(op, db, hp) ==
  LET r == Db_remove(db, Len(db) - 1)
  IN OpResult(r.ok, r.tasks, hp, op, None)

\* TaskOp::undo, Self::Add
undo_Add(op, db, hp) ==
  LET r == remove_task(db, op.task)
  IN OpResult(r.ok, r.tasks, hp, op, None)

\* Undo of Remove appending the task.
undo_Remove_push(op, db, hp) ==
  LET r == Db_try_push(db, op.task)
  IN OpResult(r.ok, r.tasks, hp, op, Some(op.task))

\* Undo of Remove returning nothing.
undo_Remove_none(op, db, hp) ==
  IF ~IsSome(op.position)
  THEN OpResult(FALSE, db, hp, op, None)
  ELSE LET r == Db_try_insert(db, Unwrap(op.position), op.task)
       IN OpResult(r.ok, r.tasks, hp, op, None)

\* TaskOp::undo, Self::Remove
undo_Remove(op, db, hp) ==
  IF ~IsSome(op.position)
  THEN OpResult(FALSE, db, hp, op, None)
  ELSE LET r == Db_try_insert(db, Unwrap(op.position), op.task)
       IN OpResult(r.ok, r.tasks, hp, op, Some(op.task))

\* Undo of Update storing the copy update_task returns in the `before`
\* slot.
undo_Update_recapture(op, db, hp) ==
  IF ~IsSome(op.before)
  THEN OpResult(FALSE, db, hp, op, None)
  ELSE LET r == update_task(hp, op.task, Unwrap(op.before))
           found == Db_find(db, op.task)
       IN IF ~IsSome(found)
          THEN OpResult(FALSE, db, r.heap, op, None)
          ELSE OpResult(TRUE, db, r.heap, [op EXCEPT !.before = Some(r.before)],
                        Db_get(db, Unwrap(found)))

\* TaskOp::undo, Self::Update: the copy update_task returns is dropped and
\* the `before` slot is left as it is.
undo_Update(op, db, hp) ==
  IF ~IsSome(op.before)
  THEN OpResult(FALSE, db, hp, op, None)
  ELSE LET r == update_task(hp, op.task, Unwrap(op.before))
           found == Db_find(db, op.task)
       IN IF ~IsSome(found)
          THEN OpResult(FALSE, db, r.heap, op, None)
          ELSE OpResult(TRUE, db, r.heap, op, Db_get(db, Unwrap(found)))

\* Undo of Move re-inserting the task where it was found.
undo_Move_stay(op, db, hp) ==
  IF ~IsSome(op.task)
  THEN OpResult(FALSE, db, hp, op, None)
  ELSE LET found == Db_find(db, Unwrap(op.task))
       IN IF ~IsSome(found)
          THEN OpResult(FALSE, db, hp, op, None)
          ELSE LET removed == Db_remove(db, Unwrap(found))
                   r == Db_try_insert(removed.tasks, Unwrap(found),
                                      Unwrap(removed.task))
               IN OpResult(r.ok, r.tasks, hp, op, removed.task)

\* Undo of Move appending the task to the store.
undo_Move_end(op, db, hp) ==
  IF ~IsSome(op.task)
  THEN OpResult(FALSE, db, hp, op, None)
  ELSE LET found == Db_find(db, Unwrap(op.task))
       IN IF ~IsSome(found)
          THEN OpResult(FALSE, db, hp, op, None)
          ELSE LET removed == Db_remove(db, Unwrap(found))
                   r == Db_try_push(removed.tasks, Unwrap(removed.task))
               IN OpResult(r.ok, r.tasks, hp, op, removed.task)

\* TaskOp::undo, Self::Move
undo_Move(op, db, hp) ==
  IF ~IsSome(op.task)
  THEN OpResult(FALSE, db, hp, op, None)
  ELSE LET found == Db_find(db, Unwrap(op.task))
       IN IF ~IsSome(found)
          THEN OpResult(FALSE, db, hp, op, None)
          ELSE LET removed == Db_remove(db, Unwrap(found))
                   r == Db_try_insert(removed.tasks, op.from,
                                      Unwrap(removed.task))
               IN OpResult(r.ok, r.tasks, hp, op, removed.task)

\* <TaskOp as Op>::undo
TaskOp_undo(op, db, hp) ==
  CASE op.kind = "Add" -> undo_Add(op, db, hp)
    [] op.kind = "Remove" -> undo_Remove(op, db, hp)
    [] op.kind = "Update" -> undo_Update(op, db, hp)
    [] op.kind = "Move" -> undo_Move(op, db, hp)

(***************************************************************************)
(* Ops<TaskOp, Db<Task>, Option<Rc<Task>>>: the bounded undo/redo log.     *)
(* ops is [undo, redo, max_count]; the top of each stack is its last       *)
(* element and the oldest retained operation is the first.                 *)
(***************************************************************************)

\* Ops::new
Ops_new(max_count) == [undo |-> <<>>, redo |-> <<>>, max_count |-> max_count]

LogResult(ok, db, hp, ops, ret, evicted) ==
  [ok |-> ok, tasks |-> db, heap |-> hp, operations |-> ops, ret |-> ret,
   evicted |-> evicted]

\* exec leaving the redo stack as it is.
Ops_exec_keep_redo(ops, op, db, hp) ==
  LET full == Len(ops.undo) >= ops.max_count
      kept == IF full THEN Tail(ops.undo) ELSE ops.undo
      r == TaskOp_exec(op, db, hp)
  IN LogResult(r.ok, r.tasks, r.heap, [ops EXCEPT !.undo = Append(kept, r.op)],
               r.ret, full /\ ops.undo # <<>>)

\* exec never evicting.
Ops_exec_no_evict(ops, op, db, hp) ==
  LET r == TaskOp_exec(op, db, hp)
  IN LogResult(r.ok, r.tasks, r.heap,
               [ops EXCEPT !.undo = Append(@, r.op), !.redo = <<>>],
               r.ret, FALSE)

\* exec not recording the new operation when the stack is full.
Ops_exec_drop_new(ops, op, db, hp) ==
  LET full == Len(ops.undo) >= ops.max_count
      r == TaskOp_exec(op, db, hp)
  IN LogResult(r.ok, r.tasks, r.heap,
               [ops EXCEPT !.undo = IF full THEN @ ELSE Append(@, r.op),
                           !.redo = <<>>],
               r.ret, full /\ ops.undo # <<>>)

\* Ops::exec: push the operation (evicting the oldest entry when the stack
\* is full), clear the redo stack, run op.exec and return its result.
Ops_exec(ops, op, db, hp) ==
  LET full == Len(ops.undo) >= ops.max_count
      kept == IF full THEN Tail(ops.undo) ELSE ops.undo
      r == TaskOp_exec(op, db, hp)
  IN LogResult(r.ok, r.tasks, r.heap,
               [ops EXCEPT !.undo = Append(kept, r.op), !.redo = <<>>],
               r.ret, full /\ ops.undo # <<>>)

\* undo returning the operation's own result, not wrapped in Some.
Ops_undo_flat(ops, db, hp) ==
  IF ops.undo = <<>>
  THEN LogResult(TRUE, db, hp, ops, None, FALSE)
  ELSE LET r == TaskOp_undo(Last(ops.undo), db, hp)
           popped == [ops EXCEPT !.undo = Front(@)]
       IN IF r.ok
          THEN LogResult(TRUE, r.tasks, r.heap,
                         [popped EXCEPT !.redo = Append(@, r.op)],
                         r.ret, FALSE)
          ELSE LogResult(FALSE, r.tasks, r.heap, popped, None, FALSE)

\* undo copying the operation onto the redo stack without popping it.
Ops_undo_copy(ops, db, hp) ==
  IF ops.undo = <<>>
  THEN LogResult(TRUE, db, hp, ops, None, FALSE)
  ELSE LET r == TaskOp_undo(Last(ops.undo), db, hp)
       IN IF r.ok
          THEN LogResult(TRUE, r.tasks, r.heap,
                         [ops EXCEPT !.redo = Append(@, r.op)],
                         Some(r.ret), FALSE)
          ELSE LogResult(FALSE, r.tasks, r.heap,
                         [ops EXCEPT !.undo = Front(@)], None, FALSE)

\* Ops::undo: None when there is nothing to undo; otherwise pop the most
\* recent operation, run op.undo, push the operation onto the redo stack
\* and return Some(result).  A panic in op.undo unwinds before the push.
Ops_undo(ops, db, hp) ==
  IF ops.undo = <<>>
  THEN LogResult(TRUE, db, hp, ops, None, FALSE)
  ELSE LET r == TaskOp_undo(Last(ops.undo), db, hp)
           popped == [ops EXCEPT !.undo = Front(@)]
       IN IF r.ok
          THEN LogResult(TRUE, r.tasks, r.heap,
                         [popped EXCEPT !.redo = Append(@, r.op)],
                         Some(r.ret), FALSE)
          ELSE LogResult(FALSE, r.tasks, r.heap, popped, None, FALSE)

\* redo reporting an operation as re-applied when there is none.
Ops_redo_some(ops, db, hp) ==
  IF ops.redo = <<>>
  THEN LogResult(TRUE, db, hp, ops, Some(None), FALSE)
  ELSE LET r == TaskOp_exec(Last(ops.redo), db, hp)
           popped == [ops EXCEPT !.redo = Front(@)]
       IN IF r.ok
          THEN LogResult(TRUE, r.tasks, r.heap,
                         [popped EXCEPT !.undo = Append(@, r.op)],
                         Some(r.ret), FALSE)
          ELSE LogResult(FALSE, r.tasks, r.heap, popped, None, FALSE)

\* redo re-applying the operation that was undone first.
Ops_redo_oldest(ops, db, hp) ==
  IF ops.redo = <<>>
  THEN LogResult(TRUE, db, hp, ops, None, FALSE)
  ELSE LET r == TaskOp_exec(ops.redo[1], db, hp)
           popped == [ops EXCEPT !.redo = Tail(@)]
       IN IF r.ok
          THEN LogResult(TRUE, r.tasks, r.heap,
                         [popped EXCEPT !.undo = Append(@, r.op)],
                         Some(r.ret), FALSE)
          ELSE LogResult(FALSE, r.tasks, r.heap, popped, None, FALSE)

\* Ops::redo: None when there is nothing to redo; otherwise pop the most
\* recently undone operation, run op.exec again, push it back onto the
\* undo stack and return Some(result).
Ops_redo(ops, db, hp) ==
  IF ops.redo = <<>>
  THEN LogResult(TRUE, db, hp, ops, None, FALSE)
  ELSE LET r == TaskOp_exec(Last(ops.redo), db, hp)
           popped == [ops EXCEPT !.redo = Front(@)]
       IN IF r.ok
          THEN LogResult(TRUE, r.tasks, r.heap,
                         [popped EXCEPT !.undo = Append(@, r.op)],
                         Some(r.ret), FALSE)
          ELSE LogResult(FALSE, r.tasks, r.heap, popped, None, FALSE)

(***************************************************************************)
(* Persisted task lists and Tasks::with_serde                              *)
(***************************************************************************)

\* A persisted task with its identifier; tags is a Vec<Tag>, a sequence of
\* tag identifiers.
SerTask(id, summary, tags) == [id |-> id, summary |-> summary, tags |-> tags]

\* Two persisted tasks in the pattern of test::make_tasks_with_tags: the
\* second one carries the "complete" tag.
TwoTasks == <<SerTask(1, "1", <<>>), SerTask(2, "2", <<COMPLETE_TAG>>)>>

\* What Tasks::to_serde returned in an earlier run of the program, after
\* add("x", [], None) on an empty store: the task carries the first
\* identifier Task::allocate_id hands out.
SavedTasks == <<SerTask(UsizeMax \div 2, "x", <<>>)>>

\* A tag identifier the registry has no template for.
UnknownTag == COMPLETE_TAG + 1

\* A persisted list whose second task of three carries that tag.
BadTagTasks ==
  <<SerTask(1, "1", <<>>), SerTask(2, "2", <<UnknownTag>>),
    SerTask(3, "3", <<>>)>>

\* A persisted task that lists the "complete" tag twice.
DupTagTasks == <<SerTask(1, "1", <<COMPLETE_TAG, COMPLETE_TAG>>)>>

PersistedLists == {<<>>, TwoTasks, SavedTasks, BadTagTasks, DupTagTasks}

\* Templates::instantiate succeeds for the identifiers of the registry.
Instantiable(tag) == tag = COMPLETE_TAG

\* Tasks::with_serde keeping the tasks that precede the first one with a
\* tag that cannot be instantiated.
Tasks_with_serde_partial(list) ==
  LET good == {n \in 0..Len(list) :
                 \A i \in 1..n : \A t \in Range(list[i].tags) :
                   Instantiable(t)}
      n == CHOOSE n \in good : \A m \in good : m <= n
  IN [ok |-> TRUE, result |-> "Ok",
      heap |-> [i \in 1..n |->
                  TaskInner(list[i].id, list[i].summary,
                            Range(list[i].tags))],
      tasks |-> [i \in 1..n |-> i],
      operations |-> Ops_new(MAX_UNDO_STEP_COUNT)]

\* Task::with_serde for every task of the list (Tasks::with_serde's
\* try_fold): Err(InvalidInput) as soon as one tag cannot be instantiated,
\* and then there is no Tasks object: no heap, no store.  The tags of a
\* task are collected into its BTreeSet.
Tasks_with_serde(list) ==
  IF \E i \in 1..Len(list) : \E t \in Range(list[i].tags) : ~Instantiable(t)
  THEN [ok |-> FALSE, result |-> "InvalidInput", heap |-> <<>>,
        tasks |-> <<>>, operations |-> Ops_new(MAX_UNDO_STEP_COUNT)]
  ELSE [ok |-> TRUE, result |-> "Ok",
        heap |-> [i \in 1..Len(list) |->
                    TaskInner(list[i].id, list[i].summary,
                              Range(list[i].tags))],
        tasks |-> [i \in 1..Len(list) |-> i],
        operations |-> Ops_new(MAX_UNDO_STEP_COUNT)]

\* The elements of a BTreeSet in the order its iterator yields them.
RECURSIVE SortedSeq(_)
SortedSeq(set) ==
  IF set = {} THEN <<>>
  ELSE LET least == CHOOSE x \in set : \A y \in set : x <= y
       IN <<least>> \o SortedSeq(set \ {least})

\* <Task as ToSerde>::to_serde: the identifier, the summary and the tags'
\* identifiers as the set's iterator yields them.
Task_to_serde(inner) == SerTask(inner.id, inner.summary, SortedSeq(inner.tags))

\* to_serde listing the tasks by ascending identifier.
Tasks_to_serde_sorted(db, hp) ==
  LET ids == SortedSeq({hp[db[i]].id : i \in 1..Len(db)})
  IN [k \in 1..Len(ids) |->
        Task_to_serde(hp[CHOOSE h \in Range(db) : hp[h].id = ids[k]])]

\* Tasks::to_serde: Task::to_serde of every task of the store, in the
\* store's order.
Tasks_to_serde(db, hp) == [i \in 1..Len(db) |-> Task_to_serde(hp[db[i]])]

(***************************************************************************)
(* Ghost state                                                             *)
(***************************************************************************)

\* What an observer of the store sees: the handle at every position and
\* the identifier, summary and tags behind it.
View(db, hp) == [i \in 1..Len(db) |-> [task |-> db[i], inner |-> hp[db[i]]]]

\* last: the most recent facade call, whether it returned (ok) or panicked,
\* and what it returned.  `self` marks a move whose two arguments are the
\* same handle.
Call(call, ret, ok, self) ==
  [call |-> call, ret |-> ret, ok |-> ok, self |-> self]

ExecCalls == {"add", "remove", "update", "move_before", "move_after"}

\* ghost.undo and ghost.redo run beside operations.undo and
\* operations.redo: for every operation, the view of the store right before
\* and right after its first exec.  ghost.base is the view below the oldest
\* retained operation: the initial view, or the view right after the most
\* recently evicted operation.  ghost.list is the persisted list the
\* object was built from.  ghost.stray: an update was executed on a
\* handle that was not in the store.
GhostInit(list, db, hp) ==
  [list |-> list, init |-> View(db, hp), base |-> View(db, hp), nevict |-> 0,
   discarded |-> FALSE, stray |-> FALSE, undo |-> <<>>, redo |-> <<>>]

GhostExec(r, stray) ==
  IF ~r.ok THEN ghost
  ELSE [ghost EXCEPT
          !.undo = Append(IF r.evicted THEN Tail(@) ELSE @,
                          [pre |-> View(tasks, heap),
                           post |-> View(r.tasks, r.heap)]),
          !.redo = <<>>,
          !.base = IF r.evicted THEN ghost.undo[1].post ELSE @,
          !.nevict = IF r.evicted THEN @ + 1 ELSE @,
          !.discarded = @ \/ ghost.redo # <<>>,
          !.stray = @ \/ stray]

GhostUndo(r) ==
  IF ~r.ok \/ operations.undo = <<>> THEN ghost
  ELSE [ghost EXCEPT !.undo = Front(@), !.redo = Append(@, Last(ghost.undo))]

GhostRedo(r) ==
  IF ~r.ok \/ operations.redo = <<>> THEN ghost
  ELSE [ghost EXCEPT !.redo = Front(@), !.undo = Append(@, Last(ghost.redo))]

(***************************************************************************)
(* Tasks: the facade                                                       *)
(***************************************************************************)

Handles == 1..Len(heap)

\* RefCell::try_borrow_mut succeeding whatever is borrowed.
try_borrow_mut_unchecked(b) == TRUE

\* RefCell::try_borrow_mut on a cell with b shared borrows outstanding (a
\* mutable borrow never outlives the facade call that took it): Ok when
\* there is none.
try_borrow_mut(b) == b = 0

\* RefCell::try_borrow: Ok unless the cell is mutably borrowed.
try_borrow(b) == b >= 0

\* try_borrow_mut on the cell of a task succeeding whoever reads the task.
task_try_borrow_mut_unchecked(readers, task) == TRUE

\* RefCell::try_borrow_mut on the cell of a task, in Task::update_from: Ok
\* unless a callback of Task::tags is reading the task's tags.
task_try_borrow_mut(readers, task) == task \notin Range(readers)

\* What an exec, undo or redo of an Update leaves behind when update_from
\* panics: the operation was taken off its stack or pushed onto the undo
\* stack, its `before` slot as it was, and neither the store nor a task has
\* changed.
update_from_refused(r) ==
  [r EXCEPT !.ok = FALSE, !.tasks = tasks, !.heap = heap, !.ret = None,
            !.operations =
               IF Len(r.operations.undo) + Len(r.operations.redo)
                    < Len(operations.undo) + Len(operations.redo)
                  \/ r.operations.undo = <<>>
               THEN r.operations
               ELSE [r.operations EXCEPT
                       !.undo[Len(r.operations.undo)].before = None]]

\* The effect of a facade call that went through operations.exec.
Executed(call, r, next, stray, self) ==
  /\ tasks' = r.tasks
  /\ heap' = r.heap
  /\ operations' = r.operations
  /\ panicked' = ~r.ok
  /\ next_id' = next
  /\ nops' = nops + 1
  /\ ghost' = GhostExec(r, stray)
  /\ last' = Call(call, r.ret, r.ok, self)
  /\ UNCHANGED <<result, borrow, task_borrow, ui>>

\* A panic raised before anything was changed.
Panic(call, self) ==
  /\ panicked' = TRUE
  /\ last' = Call(call, None, FALSE, self)
  /\ UNCHANGED <<heap, tasks, operations, next_id, nops, ghost, result,
                 borrow, task_borrow, ui>>

\* Tasks::add(summary, tags, after)
Tasks_add(summary, tags, after) ==
  /\ result = "Ok" /\ ~panicked /\ nops < MaxOps
  /\ LET alloc == Task_allocate_id(next_id)
         task == Len(heap) + 1
         r == Ops_exec(operations, TaskOp_add(task, after), tasks,
                       Append(heap, TaskInner(alloc.id, summary, tags)))
     IN IF ~try_borrow_mut(borrow) \/ ~alloc.ok
        THEN Panic("add", FALSE)
        ELSE Executed("add", r, alloc.next, FALSE, FALSE)

\* Tasks::remove(task)
Tasks_remove(task) ==
  /\ result = "Ok" /\ ~panicked /\ nops < MaxOps
  /\ IF ~try_borrow_mut(borrow)
     THEN Panic("remove", FALSE)
     ELSE Executed("remove",
                   Ops_exec(operations, TaskOp_remove(task), tasks, heap),
                   next_id, FALSE, FALSE)

\* Tasks::update(task, updated); `next` is NEXT_ID after the caller has made
\* the replacement.
Tasks_update(task, updated, next) ==
  /\ result = "Ok" /\ ~panicked /\ nops < MaxOps
  /\ IF ~try_borrow_mut(borrow)
     THEN /\ panicked' = TRUE
          /\ next_id' = next
          /\ last' = Call("update", None, FALSE, FALSE)
          /\ UNCHANGED <<heap, tasks, operations, nops, ghost, result, borrow,
                         task_borrow, ui>>
     ELSE Executed("update",
                   LET r == Ops_exec(operations, TaskOp_update(task, updated),
                                     tasks, heap)
                   IN IF task_try_borrow_mut(task_borrow, task) THEN r
                      ELSE update_from_refused(r),
                   next, task \notin Range(tasks), FALSE)

\* Tasks::move_before without its Rc::ptr_eq test.
Tasks_move_unguarded(call, to_move, to) ==
  LET found == Db_find(tasks, to_move)
  IN /\ nops < MaxOps
     /\ IF ~try_borrow_mut(borrow) \/ ~IsSome(found)
        THEN Panic(call, to_move = to.task)
        ELSE Executed(call,
                      Ops_exec(operations, TaskOp_move_(Unwrap(found), to),
                               tasks, heap),
                      next_id, FALSE, to_move = to.task)

\* A move that also returns at once when the task is already where it is
\* to go.
Tasks_move_lazy(call, to_move, to) ==
  LET found == Db_find(tasks, to_move)
      goal == Db_find(tasks, to.task)
      there == /\ IsSome(found) /\ IsSome(goal)
               /\ Unwrap(found) = IF to.kind = "Before"
                                   THEN Unwrap(goal) - 1
                                   ELSE Unwrap(goal) + 1
  IN IF to_move = to.task \/ there
     THEN /\ last' = Call(call, None, TRUE, to_move = to.task)
          /\ UNCHANGED <<heap, tasks, operations, next_id, panicked, nops,
                         ghost, result, borrow, task_borrow, ui>>
     ELSE /\ nops < MaxOps
          /\ IF ~try_borrow_mut(borrow) \/ ~IsSome(found)
             THEN Panic(call, FALSE)
             ELSE Executed(call,
                           Ops_exec(operations,
                                    TaskOp_move_(Unwrap(found), to),
                                    tasks, heap),
                           next_id, FALSE, FALSE)

\* The body shared by Tasks::move_before and Tasks::move_after: nothing
\* happens when both arguments are the same handle (Rc::ptr_eq).
Tasks_move(call, to_move, to) ==
  IF to_move = to.task
  THEN /\ last' = Call(call, None, TRUE, TRUE)
       /\ UNCHANGED <<heap, tasks, operations, next_id, panicked, nops, ghost,
                      result, borrow, task_borrow, ui>>
  ELSE LET found == Db_find(tasks, to_move)
       IN /\ nops < MaxOps
          /\ IF ~try_borrow_mut(borrow) \/ ~IsSome(found)
             THEN Panic(call, FALSE)
             ELSE Executed(call,
                           Ops_exec(operations,
                                    TaskOp_move_(Unwrap(found), to),
                                    tasks, heap),
                           next_id, FALSE, FALSE)

\* Tasks::move_before(to_move, other)
Tasks_move_before(to_move, other) ==
  /\ result = "Ok" /\ ~panicked
  /\ Tasks_move("move_before", to_move, Before(other))

\* Tasks::move_after(to_move, other)
Tasks_move_after(to_move, other) ==
  /\ result = "Ok" /\ ~panicked
  /\ Tasks_move("move_after", to_move, After(other))

\* Tasks::undo
Tasks_undo ==
  /\ result = "Ok" /\ ~panicked
  /\ LET done == Ops_undo(operations, tasks, heap)
         r == IF operations.undo # <<>> /\ Last(operations.undo).kind = "Update"
                 /\ ~task_try_borrow_mut(task_borrow, Last(operations.undo).task)
              THEN update_from_refused(done)
              ELSE done
     IN IF ~try_borrow_mut(borrow) THEN Panic("undo", FALSE) ELSE
        /\ tasks' = r.tasks
        /\ heap' = r.heap
        /\ operations' = r.operations
        /\ panicked' = ~r.ok
        /\ ghost' = GhostUndo(r)
        /\ last' = Call("undo", r.ret, r.ok, FALSE)
        /\ UNCHANGED <<next_id, nops, result, borrow, task_borrow, ui>>

\* Tasks::redo
Tasks_redo ==
  /\ result = "Ok" /\ ~panicked
  /\ LET done == Ops_redo(operations, tasks, heap)
         r == IF operations.redo # <<>> /\ Last(operations.redo).kind = "Update"
                 /\ ~task_try_borrow_mut(task_borrow, Last(operations.redo).task)
              THEN update_from_refused(done)
              ELSE done
     IN IF ~try_borrow_mut(borrow) THEN Panic("redo", FALSE) ELSE
        /\ tasks' = r.tasks
        /\ heap' = r.heap
        /\ operations' = r.operations
        /\ panicked' = ~r.ok
        /\ ghost' = GhostRedo(r)
        /\ last' = Call("redo", r.ret, r.ok, FALSE)
        /\ UNCHANGED <<next_id, nops, result, borrow, task_borrow, ui>>

\* Tasks::iter(f), up to the point where f runs: the shared borrow is
\* taken, and it is held while f runs.
Tasks_iter ==
  /\ result = "Ok" /\ ~panicked
  /\ nops <= IterOps /\ borrow < MaxBorrows
  /\ IF try_borrow(borrow)
     THEN /\ borrow' = borrow + 1
          /\ UNCHANGED <<heap, tasks, operations, next_id, panicked, nops,
                         ghost, last, result, task_borrow, ui>>
     ELSE Panic("iter", FALSE)

\* Tasks::iter(f) from the point where f returns: the borrow is dropped.
Tasks_iter_return ==
  /\ ~panicked /\ borrow > 0
  /\ borrow' = borrow - 1
  /\ UNCHANGED <<heap, tasks, operations, next_id, panicked, nops, ghost,
                 last, result, task_borrow, ui>>

\* task.tags(f), up to the point where f runs: the shared borrow of the
\* task's cell is taken, and it is held while f runs.
Task_tags(task) ==
  /\ result = "Ok" /\ ~panicked
  /\ nops <= IterOps /\ borrow + Len(task_borrow) < MaxBorrows
  /\ task_borrow' = Append(task_borrow, task)
  /\ UNCHANGED <<heap, tasks, operations, next_id, panicked, nops, ghost,
                 last, result, borrow, ui>>

\* task.tags(f) from the point where f returns: the borrow is dropped.
Task_tags_return ==
  /\ ~panicked /\ task_borrow # <<>>
  /\ task_borrow' = Front(task_borrow)
  /\ UNCHANGED <<heap, tasks, operations, next_id, panicked, nops, ghost,
                 last, result, borrow, ui>>

(***************************************************************************)
(* The inputs of the facade calls                                          *)
(***************************************************************************)

\* The (summary, tags) pairs a caller passes to add.
AddInputs == {[summary |-> "x", tags |-> {}]}

\* The replacements a caller passes to update(task, ...): a deep copy of
\* the task with another summary, or a deep copy with the "complete" tag
\* toggled (what the task list does on ' ' and after an edit), or a task
\* the caller has made with Task::with_summary_and_tags("x", [], ..), which
\* allocates an identifier for it.
Replacements(task) ==
  {[updated |-> Task_set_summary(heap[task], s), next |-> next_id] :
     s \in Summaries}
  \cup {[updated |-> Task_set_tags(heap[task],
                      IF COMPLETE_TAG \in heap[task].tags
                      THEN heap[task].tags \ {COMPLETE_TAG}
                      ELSE heap[task].tags \cup {COMPLETE_TAG}),
         next |-> next_id]}
  \cup {[updated |-> TaskInner(Task_allocate_id(next_id).id, "x", {}),
          next |-> Task_allocate_id(next_id).next] :
          ok \in {TRUE} \cap {Task_allocate_id(next_id).ok}}

\* The lists a store is also built from by hand.
HandBuiltLists == {<<>>, SavedTasks}

\* The two ways the source builds a store with its log: Tasks::with_serde,
\* whose log has depth MAX_UNDO_STEP_COUNT, and Db::from_iter with
\* Ops::new(max_count) as the tests of TaskOp do.
Built(list) ==
  {Tasks_with_serde(list)}
  \cup {[Tasks_with_serde(list) EXCEPT !.operations = Ops_new(SmallUndoCount)] :
          ok \in {TRUE} \cap {list \in HandBuiltLists}}

\* The state right after the object t was built from the persisted list.
Constructed(list, t) ==
  /\ result = t.result
  /\ heap = t.heap
  /\ tasks = t.tasks
  /\ operations = t.operations
  /\ next_id = UsizeMax \div 2
  /\ panicked = FALSE
  /\ nops = 0
  /\ ghost = GhostInit(list, t.tasks, t.heap)
  /\ last = Call("new", None, TRUE, FALSE)
  /\ borrow = 0
  /\ task_borrow = <<>>
  /\ ui = None

Init == \E list \in PersistedLists : \E t \in Built(list) : Constructed(list, t)

Next ==
  \/ \E in \in AddInputs, after \in {None} \cup {Some(h) : h \in Handles} :
       Tasks_add(in.summary, in.tags, after)
  \/ \E task \in Handles : Tasks_remove(task)
  \/ \E task \in Handles : \E rep \in Replacements(task) :
       Tasks_update(task, rep.updated, rep.next)
  \/ \E to_move \in Handles, other \in Handles :
       Tasks_move_before(to_move, other)
  \/ \E to_move \in Handles, other \in Handles :
       Tasks_move_after(to_move, other)
  \/ Tasks_undo
  \/ Tasks_redo

Spec == Init /\ [][Next]_vars

\* The facade with callers that call it from inside the callback they pass
\* to Tasks::iter, on the object Tasks::with_serde builds from TwoTasks.
InitIter == Constructed(TwoTasks, Tasks_with_serde(TwoTasks))

NextIter ==
  \/ Next
  \/ Tasks_iter
  \/ Tasks_iter_return

SpecIter == InitIter /\ [][NextIter]_vars

\* The same callers, who also call the facade from inside the callback they
\* pass to Task::tags.
NextBorrow ==
  \/ NextIter
  \/ \E task \in Handles : Task_tags(task)
  \/ Task_tags_return

\* The object Tasks::with_serde builds from the one task of SavedTasks.
InitBorrow == Constructed(SavedTasks, Tasks_with_serde(SavedTasks))

SpecBorrow == InitBorrow /\ [][NextBorrow]_vars

\* Tasks::with_serde(tasks.to_serde(), templates): the tasks are saved and
\* a new object is built from the saved list, in the same run or, with
\* NEXT_ID back at its start, in the next one.  The handles of the old
\* object are gone with it.  ghost.discarded: the old object had a
\* history.
Tasks_reload(restart) ==
  /\ result = "Ok" /\ ~panicked /\ borrow = 0 /\ task_borrow = <<>>
  /\ LET list == Tasks_to_serde(tasks, heap)
         t == Tasks_with_serde(list)
     IN /\ result' = t.result
        /\ heap' = t.heap
        /\ tasks' = t.tasks
        /\ operations' = t.operations
        /\ next_id' = IF restart THEN UsizeMax \div 2 ELSE next_id
        /\ ghost' = [GhostInit(list, t.tasks, t.heap) EXCEPT
                       !.discarded = operations.undo # <<>>
                                     \/ operations.redo # <<>>]
        /\ last' = Call("new", None, TRUE, FALSE)
        /\ UNCHANGED <<panicked, nops, borrow, task_borrow, ui>>

NextReload ==
  \/ Next
  \/ \E restart \in BOOLEAN : Tasks_reload(restart)

\* The object Tasks::with_serde builds from the saved list of one task.
InitReload == Constructed(SavedTasks, Tasks_with_serde(SavedTasks))

\* The facade with callers that save the tasks and load them again.
SpecReload == InitReload /\ [][NextReload]_vars

(***************************************************************************)
(* A task of the caller's own, outside any Tasks object, and its tags      *)
(***************************************************************************)

\* ghost of a lone task: the tag of the most recent call and the tags whose
\* most recent set_tag was not followed by an unset_tag.
TagGhost(tag, set) == [tag |-> tag, set |-> set]

\* let mut task = Task::new("test task"): the task is handle 1, it has the
\* first identifier of the run and no tags, and there is no store.
InitTag ==
  /\ heap = <<TaskInner(Task_allocate_id(UsizeMax \div 2).id, "test task", {})>>
  /\ next_id = Task_allocate_id(UsizeMax \div 2).next
  /\ tasks = <<>>
  /\ operations = Ops_new(MAX_UNDO_STEP_COUNT)
  /\ panicked = FALSE
  /\ nops = 0
  /\ ghost = TagGhost(None, {})
  /\ last = Call("new", None, TRUE, FALSE)
  /\ result = "Ok"
  /\ borrow = 0
  /\ task_borrow = <<>>
  /\ ui = None

\* task.has_tag(&tag)
Tag_has(tag) ==
  /\ last' = Call("has_tag", Task_has_tag(heap[1], tag), TRUE, FALSE)
  /\ ghost' = [ghost EXCEPT !.tag = Some(tag)]
  /\ UNCHANGED <<heap, tasks, operations, next_id, panicked, nops, result,
                 borrow, task_borrow, ui>>

\* task.set_tag(tag)
Tag_set(tag) ==
  LET r == Task_set_tag(heap[1], tag)
  IN /\ heap' = [heap EXCEPT ![1] = r.inner]
     /\ last' = Call("set_tag", r.ret, TRUE, FALSE)
     /\ ghost' = TagGhost(Some(tag), ghost.set \cup {tag})
     /\ UNCHANGED <<tasks, operations, next_id, panicked, nops, result, borrow,
                    task_borrow, ui>>

\* task.unset_tag(&tag)
Tag_unset(tag) ==
  LET r == Task_unset_tag(heap[1], tag)
  IN /\ heap' = [heap EXCEPT ![1] = r.inner]
     /\ last' = Call("unset_tag", r.ret, TRUE, FALSE)
     /\ ghost' = TagGhost(Some(tag), ghost.set \ {tag})
     /\ UNCHANGED <<tasks, operations, next_id, panicked, nops, result, borrow,
                    task_borrow, ui>>

NextTag ==
  \/ \E tag \in Tags : Tag_has(tag)
  \/ \E tag \in Tags : Tag_set(tag)
  \/ \E tag \in Tags : Tag_unset(tag)

SpecTag == InitTag /\ [][NextTag]_vars

(***************************************************************************)
(* Id (src/src/ser/id.rs) and its serialized form                          *)
(***************************************************************************)

\* The model's u64 is one bit wider than its usize, so that `as usize`
\* truncates as it does on a target whose usize is narrower than 64 bits.
U64Max == 2 * (UsizeMax + 1) - 1

\* A u64 as the serializer writes it: its decimal digits, the most
\* significant first.
RECURSIVE Digits(_)
Digits(n) == IF n < 10 THEN <<n>> ELSE Digits(n \div 10) \o <<n % 10>>

\* The digits written the least significant first.
RECURSIVE Digits_reversed(_)
Digits_reversed(n) ==
  IF n < 10 THEN <<n>> ELSE <<n % 10>> \o Digits_reversed(n \div 10)

\* The number a sequence of decimal digits is read as.
RECURSIVE Number(_)
Number(text) ==
  IF text = <<>> THEN 0 ELSE 10 * Number(Front(text)) + Last(text)

\* try_from accepting every number.
Id_try_from_any(other) == [ok |-> TRUE, id |-> other]

\* <Id as TryFrom<usize>>::try_from: NonZeroUsize::new(other).map(Id::new)
\* .ok_or(())
Id_try_from(other) == [ok |-> other # 0, id |-> other]

\* Id::get
Id_get(id) == id

\* serialize writing the digits the least significant first.
Id_serialize_reversed(id) == Digits_reversed(Id_get(id) % (U64Max + 1))

\* <Id as Serialize>::serialize: serialize_u64(self.id.get() as u64)
Id_serialize(id) == Digits(Id_get(id) % (U64Max + 1))

\* <Id as Deserialize>::deserialize: u64::deserialize, then
\* NonZeroUsize::try_from(id as usize), an invalid_value error when that is
\* zero.  A number that is no u64 is the deserializer's own error.
Id_deserialize(text) ==
  LET id == Number(text)
      truncated == id % (UsizeMax + 1)
  IN IF id > U64Max THEN [ok |-> FALSE, err |-> "invalid_type", id |-> 0]
     ELSE IF truncated = 0
          THEN [ok |-> FALSE, err |-> "invalid_value", id |-> 0]
          ELSE [ok |-> TRUE, err |-> "", id |-> truncated]

\* ghost of a caller that holds an Id or a serialized Id: the Id held, the
\* text held, the Id the text was serialized from and the number given to
\* try_from.
IdGhost(id, text, orig, arg) ==
  [id |-> id, text |-> text, orig |-> orig, arg |-> arg]

\* A run that has made no Id yet.
InitId ==
  /\ heap = <<>>
  /\ next_id = UsizeMax \div 2
  /\ tasks = <<>>
  /\ operations = Ops_new(MAX_UNDO_STEP_COUNT)
  /\ panicked = FALSE
  /\ nops = 0
  /\ ghost = IdGhost(None, None, None, None)
  /\ last = Call("new", None, TRUE, FALSE)
  /\ result = "Ok"
  /\ borrow = 0
  /\ task_borrow = <<>>
  /\ ui = None

\* What a step on Ids leaves alone.
IdFrame ==
  UNCHANGED <<heap, tasks, operations, nops, result, borrow, task_borrow, ui>>

\* Task::allocate_id()
Id_allocate ==
  LET alloc == Task_allocate_id(next_id)
  IN /\ ~panicked
     /\ next_id' = alloc.next
     /\ panicked' = ~alloc.ok
     /\ last' = Call("allocate_id", None, alloc.ok, FALSE)
     /\ ghost' = IdGhost(IF alloc.ok THEN Some(alloc.id) ELSE None, None, None,
                         None)
     /\ IdFrame

\* Id::try_from(other)
Id_convert(other) ==
  LET r == Id_try_from(other)
  IN /\ ~panicked
     /\ last' = Call("try_from", None, r.ok, FALSE)
     /\ ghost' = IdGhost(IF r.ok THEN Some(r.id) ELSE None, None, None,
                         Some(other))
     /\ UNCHANGED <<next_id, panicked>>
     /\ IdFrame

\* to_json(&id) for the Id held
Id_to_json ==
  /\ ~panicked /\ IsSome(ghost.id)
  /\ last' = Call("serialize", None, TRUE, FALSE)
  /\ ghost' = IdGhost(None, Some(Id_serialize(Unwrap(ghost.id))), ghost.id,
                      None)
  /\ UNCHANGED <<next_id, panicked>>
  /\ IdFrame

\* from_json::<Id>(text), for the text held or for a number written down
\* by hand.
Id_from_json(text, orig) ==
  LET r == Id_deserialize(text)
  IN /\ ~panicked
     /\ last' = Call("deserialize", r.err, r.ok, FALSE)
     /\ ghost' = IdGhost(IF r.ok THEN Some(r.id) ELSE None, Some(text), orig,
                         None)
     /\ UNCHANGED <<next_id, panicked>>
     /\ IdFrame

NextId ==
  \/ Id_allocate
  \/ \E other \in 0..UsizeMax : Id_convert(other)
  \/ Id_to_json
  \/ IsSome(ghost.text) /\ IsSome(ghost.orig)
       /\ Id_from_json(Unwrap(ghost.text), ghost.orig)
  \/ \E n \in 0..(U64Max + 1) : Id_from_json(Digits(n), None)

SpecId == InitId /\ [][NextId]_vars

(***************************************************************************)
(* TaskListBox (src/src/task_list_box.rs): the widget that lists the tasks *)
(* of a query.  ui is [selection, editing]; the value a handler returns,   *)
(* an Option<MetaEvent>, is kept in last.ret as the sequence of the        *)
(* events of the chain, None being the empty sequence.                     *)
(***************************************************************************)

Max(a, b) == IF a >= b THEN a ELSE b

Min(a, b) == IF a <= b THEN a ELSE b

\* isize::MAX
IsizeMax == 2 ^ (UsizeBits - 1) - 1

\* sanitize_selection taking count for the last valid index.
sanitize_selection_count(selection, count) == Max(0, Min(count, selection))

\* sanitize_selection: max(0, min(count as isize - 1, selection)) as usize
sanitize_selection(selection, count) == Max(0, Min(count - 1, selection))

\* Query::position(|x| x.id() == task_id) on the query of the widget, which
\* yields the tasks of the store in the store's order.
Query_position(db, hp, task_id) ==
  IF \E i \in 1..Len(db) : hp[db[i]].id = task_id
  THEN Some((CHOOSE i \in 1..Len(db) :
               /\ hp[db[i]].id = task_id
               /\ \A j \in 1..(i - 1) : hp[db[j]].id # task_id) - 1)
  ELSE None

\* Query::nth
Query_nth(db, n) == IF n < Len(db) THEN Some(db[n + 1]) ELSE None

\* Task::toggle_complete on a copy of a task.
Task_toggle_complete(inner) ==
  IF Task_has_tag(inner, COMPLETE_TAG)
  THEN Task_unset_tag(inner, COMPLETE_TAG).inner
  ELSE Task_set_tag(inner, COMPLETE_TAG).inner

\* EventUpdated::update: the chain with an Updated event.
update(events) == Append(events, "Updated")

\* EventUpdated::maybe_update
maybe_update(events, updated) == IF updated THEN update(events) ELSE events

\* TaskListBox::new
TaskListBox_new == [selection |-> 0, editing |-> None]

\* TaskListBox::set_select: the widget afterwards and whether the selection
\* changed.
TaskListBox_set_select(box, new_selection, count) ==
  LET selection == sanitize_selection(new_selection, count)
  IN [box |-> [box EXCEPT !.selection = selection],
      update |-> selection # box.selection]

\* select leaving the selection where it is.
TaskListBox_select_stay(box, change, count) == [box |-> box, update |-> FALSE]

\* TaskListBox::select
TaskListBox_select(box, change, count) ==
  TaskListBox_set_select(box, box.selection + change, count)

\* TaskListBox::selected_task: the debug_assert on the query and
\* nth(self.selection).unwrap() both fail when the query has no task at the
\* selection.
TaskListBox_selected_task(box, db) ==
  [ok |-> IsSome(Query_nth(db, box.selection)),
   task |-> Query_nth(db, box.selection)]

\* TaskListBox::handle_select_task
TaskListBox_handle_select_task(box, db, hp, task_id) ==
  LET idx == Query_position(db, hp, task_id)
  IN IF IsSome(idx)
     THEN LET r == TaskListBox_set_select(box, Unwrap(idx), Len(db))
          IN [box |-> r.box,
              events |-> maybe_update(<<"SelectedTask">>, r.update)]
     ELSE [box |-> box, events |-> <<"SelectTask">>]

\* A handler that changed the tasks through the log and returned.
Handled(call, r, next, stray, box, events) ==
  /\ tasks' = r.tasks
  /\ heap' = r.heap
  /\ operations' = r.operations
  /\ panicked' = ~r.ok
  /\ next_id' = next
  /\ nops' = nops + 1
  /\ ghost' = GhostExec(r, stray)
  /\ ui' = box
  /\ last' = Call(call, events, r.ok, FALSE)
  /\ UNCHANGED <<result, borrow, task_borrow>>

\* A handler that returned without touching the tasks.
Returned(call, box, events) ==
  /\ ui' = box
  /\ last' = Call(call, events, TRUE, FALSE)
  /\ UNCHANGED <<heap, tasks, operations, next_id, panicked, nops, ghost,
                 result, borrow, task_borrow>>

\* Key::Char(' ')
Key_space ==
  LET sel == TaskListBox_selected_task(ui, tasks)
  IN /\ ~panicked /\ (nops < MaxOps \/ ~sel.ok)
     /\ IF ~sel.ok THEN Panic("space", FALSE)
        ELSE LET task == Unwrap(sel.task)
                 toggled == Task_toggle_complete(heap[task])
                 r == Ops_exec(operations, TaskOp_update(task, toggled),
                               tasks, heap)
                 h == TaskListBox_handle_select_task(ui, r.tasks, r.heap,
                                                     toggled.id)
             IN Handled("space", r, next_id, FALSE, h.box, update(h.events))

\* Key::Char('a')
Key_a == ~panicked /\ Returned("a", ui, <<"SetInOut">>)

\* Key::Char('d')
Key_d ==
  LET sel == TaskListBox_selected_task(ui, tasks)
  IN /\ ~panicked /\ (nops < MaxOps \/ ~sel.ok)
     /\ IF tasks = <<>> THEN Returned("d", ui, None)
        ELSE IF ~sel.ok THEN Panic("d", FALSE)
        ELSE LET r == Ops_exec(operations, TaskOp_remove(Unwrap(sel.task)),
                               tasks, heap)
                 s == TaskListBox_select(ui, -1, Len(r.tasks))
             IN Handled("d", r, next_id, FALSE, s.box, update(None))

\* Key::Char('e')
Key_e ==
  LET sel == TaskListBox_selected_task(ui, tasks)
  IN /\ ~panicked
     /\ IF ~sel.ok THEN Panic("e", FALSE)
        ELSE Returned("e",
                      [ui EXCEPT !.editing =
                         Some([task |-> Unwrap(sel.task),
                               inner |-> heap[Unwrap(sel.task)]])],
                      <<"SetInOut">>)

\* Key::Char('J') and Key::Char('K'): the selected task changes places with
\* the task `change` positions further down, if there is one, and the
\* selection follows it.
Key_move(call, change) ==
  LET sel == TaskListBox_selected_task(ui, tasks)
      other == IF ui.selection + change < 0 THEN None
               ELSE Query_nth(tasks, ui.selection + change)
  IN /\ ~panicked
     /\ IF tasks = <<>> \/ (change < 0 /\ ui.selection = 0)
        THEN Returned(call, ui, None)
        ELSE IF ~sel.ok THEN Panic(call, FALSE)
        ELSE IF ~IsSome(other) THEN Returned(call, ui, None)
        ELSE /\ nops < MaxOps
             /\ LET to_move == Unwrap(sel.task)
                    to == IF change < 0 THEN Before(Unwrap(other))
                          ELSE After(Unwrap(other))
                    r == Ops_exec(operations,
                                  TaskOp_move_(Unwrap(Db_find(tasks, to_move)),
                                               to),
                                  tasks, heap)
                    s == TaskListBox_select(ui, change, Len(r.tasks))
                IN Handled(call, r, next_id, FALSE, s.box, update(None))

Key_J == Key_move("J", 1)

Key_K == Key_move("K", -1)

\* Key::Char('g')
Key_g ==
  LET s == TaskListBox_set_select(ui, 0, Len(tasks))
  IN ~panicked /\ Returned("g", s.box, maybe_update(None, s.update))

\* Key::Char('G')
Key_G ==
  LET s == TaskListBox_set_select(ui, IsizeMax, Len(tasks))
  IN ~panicked /\ Returned("G", s.box, maybe_update(None, s.update))

\* Key::Char('j')
Key_j ==
  LET s == TaskListBox_select(ui, 1, Len(tasks))
  IN ~panicked /\ Returned("j", s.box, maybe_update(None, s.update))

\* Key::Char('k')
Key_k ==
  LET s == TaskListBox_select(ui, -1, Len(tasks))
  IN ~panicked /\ Returned("k", s.box, maybe_update(None, s.update))

\* TermUiEvent::SelectTask(task_id, widget_id)
Custom_SelectTask(task_id) ==
  LET h == TaskListBox_handle_select_task(ui, tasks, heap, task_id)
  IN ~panicked /\ Returned("SelectTask", h.box, h.events)

\* TermUiEvent::EnteredText(text)
Custom_EnteredText(text) ==
  LET sel == TaskListBox_selected_task(ui, tasks)
      alloc == Task_allocate_id(next_id)
  IN /\ ~panicked
     /\ IF IsSome(ui.editing)
        THEN /\ nops < MaxOps
             /\ LET task == Unwrap(ui.editing).task
                    edited == Task_set_summary(Unwrap(ui.editing).inner, text)
                    r == Ops_exec(operations, TaskOp_update(task, edited),
                                  tasks, heap)
                    h == TaskListBox_handle_select_task(
                           [ui EXCEPT !.editing = None], r.tasks, r.heap,
                           edited.id)
                IN Handled("EnteredText", r, next_id,
                           task \notin Range(tasks), h.box, update(h.events))
        ELSE IF text = "" THEN Returned("EnteredText", ui, None)
        ELSE IF tasks # <<>> /\ ~sel.ok THEN Panic("EnteredText", FALSE)
        ELSE IF ~alloc.ok THEN Panic("EnteredText", FALSE)
        ELSE /\ nops < MaxOps
             /\ LET tags == IF tasks = <<>> THEN {}
                            ELSE heap[Unwrap(sel.task)].tags \ {COMPLETE_TAG}
                    task == Len(heap) + 1
                    r == Ops_exec(operations, TaskOp_add(task, None), tasks,
                                  Append(heap, TaskInner(alloc.id, text, tags)))
                    h == TaskListBox_handle_select_task(ui, r.tasks, r.heap,
                                                        alloc.id)
                IN Handled("EnteredText", r, alloc.next, FALSE, h.box,
                           h.events)

\* The texts a user enters.
Texts == {"", "x"}

\* The lists the task list is started on.
ListLists == {<<>>, TwoTasks}

\* TaskListBox::new on the tasks loaded from a list.
InitList ==
  \E list \in ListLists :
    LET t == Tasks_with_serde(list)
    IN /\ result = t.result
       /\ heap = t.heap
       /\ tasks = t.tasks
       /\ operations = t.operations
       /\ next_id = UsizeMax \div 2
       /\ panicked = FALSE
       /\ nops = 0
       /\ ghost = GhostInit(list, t.tasks, t.heap)
       /\ last = Call("new", None, TRUE, FALSE)
       /\ borrow = 0
       /\ task_borrow = <<>>
       /\ ui = TaskListBox_new

NextList ==
  \/ Key_space
  \/ Key_a
  \/ Key_d
  \/ Key_e
  \/ Key_J
  \/ Key_K
  \/ Key_g
  \/ Key_G
  \/ Key_j
  \/ Key_k
  \/ \E id \in {heap[h].id : h \in Handles} \cup {UsizeMax} :
       Custom_SelectTask(id)
  \/ \E text \in Texts : Custom_EnteredText(text)

SpecList == InitList /\ [][NextList]_vars

(***************************************************************************)
(* TabBar (src/src/tab_bar.rs).  ui is [tabs, offset, selection, asked];   *)
(* asked holds the arguments of the most recent call of                    *)
(* sanitize_selection.                                                     *)
(***************************************************************************)

\* The counts sanitize_selection is called with.
MaxCount == 6

\* TabBar::new
TabBar_new ==
  [tabs |-> <<"All">>, offset |-> 0, selection |-> 0, asked |-> None]

\* TabBar::select: the widget afterwards and whether the selection changed.
TabBar_select(bar, change) ==
  LET count == Len(bar.tabs)
      selection == sanitize_selection(bar.selection + change, count)
  IN [bar |-> [bar EXCEPT !.selection = selection,
                          !.asked = Some([selection |-> bar.selection + change,
                                          count |-> count])],
      update |-> selection # bar.selection]

\* Key::Char('h') and Key::Char('l')
TabBar_key(call, change) ==
  LET s == TabBar_select(ui, change)
  IN /\ ui' = s.bar
     /\ last' = Call(call, maybe_update(None, s.update), TRUE, FALSE)
     /\ UNCHANGED <<heap, tasks, operations, next_id, panicked, nops, ghost,
                    result, borrow, task_borrow>>

Key_h == TabBar_key("h", -1)

Key_l == TabBar_key("l", 1)

\* TabBar::reoffset
TabBar_reoffset(offset) ==
  /\ ui' = [ui EXCEPT !.offset = offset]
  /\ last' = Call("reoffset", None, TRUE, FALSE)
  /\ UNCHANGED <<heap, tasks, operations, next_id, panicked, nops, ghost,
                 result, borrow, task_borrow>>

\* sanitize_selection(selection, count) on its own.
Sanitize(selection, count) ==
  /\ ui' = [ui EXCEPT !.asked = Some([selection |-> selection,
                                      count |-> count])]
  /\ last' = Call("sanitize_selection", sanitize_selection(selection, count),
                  TRUE, FALSE)
  /\ UNCHANGED <<heap, tasks, operations, next_id, panicked, nops, ghost,
                 result, borrow, task_borrow>>

\* TabBar::new, beside an empty store.
InitTab ==
  LET t == Tasks_with_serde(<<>>)
  IN /\ result = t.result
     /\ heap = t.heap
     /\ tasks = t.tasks
     /\ operations = t.operations
     /\ next_id = UsizeMax \div 2
     /\ panicked = FALSE
     /\ nops = 0
     /\ ghost = GhostInit(<<>>, t.tasks, t.heap)
     /\ last = Call("new", None, TRUE, FALSE)
     /\ borrow = 0
     /\ task_borrow = <<>>
     /\ ui = TabBar_new

NextTab ==
  \/ Key_h
  \/ Key_l
  \/ \E offset \in 0..1 : TabBar_reoffset(offset)
  \/ \E selection \in (-MaxCount - 1)..(MaxCount + 1), count \in 0..MaxCount :
       Sanitize(selection, count)

SpecTab == InitTab /\ [][NextTab]_vars

(***************************************************************************)
(* Config (src/src/ui/config.rs).  ui is [debug_assertions, given, config]:*)
(* whether the build compiles debug_assert!, the SerUiConfig the           *)
(* configuration was loaded from and the Config it gave, if any.  A        *)
(* serialized view is [name, lits], lits being the identifiers of the tags *)
(* it filters by; a view is [name, lits] with the instantiated tags.       *)
(***************************************************************************)

\* The number of views a serialized configuration lists.
MaxViews == 2

\* View::with_serde: fails when a tag of the view cannot be instantiated.
View_with_serde(view) ==
  IF \E i \in 1..Len(view.lits) : ~Instantiable(view.lits[i])
  THEN [ok |-> FALSE, view |-> None]
  ELSE [ok |-> TRUE,
        view |-> Some([name |-> view.name,
                       lits |-> [i \in 1..Len(view.lits) |->
                                   [template |-> view.lits[i]]]])]

\* View::to_serde
View_to_serde(view) ==
  [name |-> view.name,
   lits |-> [i \in 1..Len(view.lits) |-> view.lits[i].template]]

\* ViewBuilder::new(tasks).build(name)
ViewBuilder_build(name) == [name |-> name, lits |-> <<>>]

\* with_serde without the default view.
Config_with_serde_bare(config) ==
  LET made == [i \in 1..Len(config.views) |->
                 View_with_serde(config.views[i].view)]
  IN IF \E i \in 1..Len(made) : ~made[i].ok
     THEN [ok |-> FALSE, err |-> "failed to instantiate view", config |-> None]
     ELSE IF IsSome(config.toggle_tag)
             /\ ~Instantiable(Unwrap(config.toggle_tag))
     THEN [ok |-> FALSE, err |-> "encountered invalid toggle tag ID",
           config |-> None]
     ELSE [ok |-> TRUE, err |-> "",
           config |->
             Some([toggle_tag |->
                     IF IsSome(config.toggle_tag)
                     THEN Some([template |-> Unwrap(config.toggle_tag)])
                     ELSE None,
                   views |-> [i \in 1..Len(made) |->
                                [view |-> Unwrap(made[i].view),
                                 selected |-> config.views[i].selected]],
                   selected |-> config.selected])]

\* Config::with_serde: the views are instantiated in order (the first
\* failure is the error), a view "all" is added when there is none, the
\* toggle tag is instantiated, and selected is taken over as it is.
Config_with_serde(config) ==
  LET made == [i \in 1..Len(config.views) |->
                 View_with_serde(config.views[i].view)]
      views == IF made = <<>>
               THEN <<[view |-> ViewBuilder_build("all"), selected |-> None]>>
               ELSE [i \in 1..Len(made) |->
                       [view |-> Unwrap(made[i].view),
                        selected |-> config.views[i].selected]]
  IN IF \E i \in 1..Len(made) : ~made[i].ok
     THEN [ok |-> FALSE, err |-> "failed to instantiate view", config |-> None]
     ELSE IF IsSome(config.toggle_tag)
             /\ ~Instantiable(Unwrap(config.toggle_tag))
     THEN [ok |-> FALSE, err |-> "encountered invalid toggle tag ID",
           config |-> None]
     ELSE [ok |-> TRUE, err |-> "",
           config |->
             Some([toggle_tag |->
                     IF IsSome(config.toggle_tag)
                     THEN Some([template |-> Unwrap(config.toggle_tag)])
                     ELSE None,
                   views |-> views,
                   selected |-> config.selected])]

\* Config::to_serde, after its debug_assert.
Config_to_serde(config) ==
  [toggle_tag |-> IF IsSome(config.toggle_tag)
                  THEN Some(Unwrap(config.toggle_tag).template) ELSE None,
   views |-> [i \in 1..Len(config.views) |->
                [view |-> View_to_serde(config.views[i].view),
                 selected |-> config.views[i].selected]],
   selected |-> config.selected]

\* The debug_assert of Config::to_serde.
Config_selected_valid(config) ==
  ~IsSome(config.selected) \/ Unwrap(config.selected) < Len(config.views)

\* The serialized views a configuration file lists.
SerViews ==
  {[view |-> [name |-> name, lits |-> lits], selected |-> None] :
     name \in {"a", "all"},
     lits \in {<<>>, <<COMPLETE_TAG>>, <<UnknownTag>>}}

RECURSIVE SeqsUpTo(_, _)
SeqsUpTo(set, n) ==
  IF n = 0 THEN {<<>>}
  ELSE SeqsUpTo(set, n - 1)
       \cup {Append(q, x) : q \in {p \in SeqsUpTo(set, n - 1) : Len(p) = n - 1},
                            x \in set}

\* The serialized configurations: what a configuration file, written by
\* this program or edited by hand, can hold.
SerUiConfigs ==
  [toggle_tag : {None, Some(COMPLETE_TAG), Some(UnknownTag)},
   views : SeqsUpTo(SerViews, MaxViews),
   selected : {None} \cup {Some(n) : n \in 0..MaxViews}]

\* Config::load: Config::with_serde on what the file holds.
Config_load(config) ==
  LET r == Config_with_serde(config)
  IN /\ ~panicked /\ last.call = "new"
     /\ ui' = [ui EXCEPT !.given = Some(config), !.config = r.config]
     /\ last' = Call("with_serde", Some([err |-> r.err]), r.ok, FALSE)
     /\ UNCHANGED <<heap, tasks, operations, next_id, panicked, nops, ghost,
                    result, borrow, task_borrow>>

\* Config::save: self.to_serde().  The debug_assert panics in a build with
\* debug assertions.
Config_save ==
  /\ ~panicked /\ IsSome(ui.config)
  /\ IF ui.debug_assertions /\ ~Config_selected_valid(Unwrap(ui.config))
     THEN Panic("to_serde", FALSE)
     ELSE /\ last' = Call("to_serde", Some(Config_to_serde(Unwrap(ui.config))),
                          TRUE, FALSE)
          /\ UNCHANGED <<heap, tasks, operations, next_id, panicked, nops,
                         ghost, result, borrow, task_borrow, ui>>

\* The program before it has loaded its configuration, beside an empty
\* store.
InitConfig ==
  \E debug_assertions \in BOOLEAN :
    LET t == Tasks_with_serde(<<>>)
    IN /\ result = t.result
       /\ heap = t.heap
       /\ tasks = t.tasks
       /\ operations = t.operations
       /\ next_id = UsizeMax \div 2
       /\ panicked = FALSE
       /\ nops = 0
       /\ ghost = GhostInit(<<>>, t.tasks, t.heap)
       /\ last = Call("new", None, TRUE, FALSE)
       /\ borrow = 0
       /\ task_borrow = <<>>
       /\ ui = [debug_assertions |-> debug_assertions, given |-> None,
                config |-> None]

NextConfig ==
  \/ \E config \in SerUiConfigs : Config_load(config)
  \/ Config_save

SpecConfig == InitConfig /\ [][NextConfig]_vars

(***************************************************************************)
(* Properties                                                              *)
(***************************************************************************)

Cur == View(tasks, heap)

\* The operation on top of a stack.
Top(stack) == stack[Len(stack)]

\* The 1-based position of a handle that is in the store.
PosOf(db, task) == CHOOSE i \in 1..Len(db) : db[i] = task

C2_RedoIsExec ==
  last.call = "redo" =>
    /\ last.ok
    /\ last.ret # None =>
         /\ operations.undo # <<>>
         /\ Cur = Top(ghost.undo).post

\* A Move that changed the order was executed, undone and redone.
C2_Witness ==
  /\ last.call = "redo" /\ last.ok /\ last.ret # None
  /\ Top(operations.undo).kind = "Move"
  /\ Top(ghost.undo).post # Top(ghost.undo).pre
  /\ Cur = Top(ghost.undo).post

\* C3: a redo that directly follows an executed operation reports "nothing
\* to redo" and changes neither the store nor the log, whatever was undone
\* before that operation; the redo stack is empty after every executed
\* operation.
C3_ExecClearsRedo ==
  [][/\ (last'.call \in ExecCalls /\ ~last'.self /\ last'.ok) =>
          operations'.redo = <<>>
     /\ (last.call \in ExecCalls /\ ~last.self /\ last.ok
         /\ last'.call = "redo") =>
          /\ last'.ok /\ last'.ret = None
          /\ UNCHANGED <<tasks, heap, operations>>]_vars

\* An operation was undone, another one was executed, and redo then
\* reported nothing.
C3_Witness ==
  /\ last.call = "redo" /\ last.ok /\ last.ret = None
  /\ ghost.discarded
  /\ operations.undo # <<>> /\ operations.redo = <<>>

\* C4: the undo stack never holds more than max_count operations, and
\* max_count is at most MAX_UNDO_STEP_COUNT, the depth of a Tasks object.
C4_UndoDepthBounded ==
  /\ Len(operations.undo) <= operations.max_count
  /\ operations.max_count <= MAX_UNDO_STEP_COUNT

\* The stack is full and an operation has been evicted from it.
C4_Witness ==
  /\ Len(operations.undo) = operations.max_count
  /\ ghost.nevict > 0

C6_UndoRemoveRestoresIndex ==
  [][(last'.call = "undo" /\ operations.undo # <<>>
      /\ Top(operations.undo).kind = "Remove") =>
       LET op == Top(operations.undo)
           i == Unwrap(op.position)
           was == Top(ghost.undo).pre
       IN /\ last'.ok
          /\ was[i + 1].task = op.task
          /\ Len(tasks') = Len(tasks) + 1
          /\ tasks'[i + 1] = op.task
          /\ \A j \in 1..i : tasks'[j] = tasks[j]
          /\ \A j \in (i + 1)..Len(tasks) : tasks'[j + 1] = tasks[j]
          /\ heap' = heap
          /\ View(tasks', heap') = was]_vars

\* The middle one of three tasks was removed and the removal undone: it is
\* in the middle again.
C6_Witness ==
  /\ last.call = "undo" /\ last.ok
  /\ operations.redo # <<>>
  /\ Top(operations.redo).kind = "Remove"
  /\ Top(operations.redo).position = Some(1)
  /\ Len(tasks) = 3
  /\ tasks[2] = Top(operations.redo).task

\* C7: an update is done in place.  Right after update(task, updated) the
\* handle shows updated's summary and tags, every other handle shows what
\* it showed before, and the store holds the same handles at the same
\* indices; right after the update is undone the handle shows the content
\* it had before the update, again with the store's handles unmoved.
C7_UpdateInPlace ==
  [][/\ (last'.call = "update" /\ last'.ok) =>
          LET op == Top(operations'.undo)
          IN /\ op.kind = "Update"
             /\ last'.ret = Some(op.task)
             /\ heap'[op.task].summary = op.updated.summary
             /\ heap'[op.task].tags = op.updated.tags
             /\ \A h \in Handles \ {op.task} : heap'[h] = heap[h]
             /\ tasks' = tasks
     /\ (last'.call = "undo" /\ operations.undo # <<>>
         /\ Top(operations.undo).kind = "Update"
         /\ Top(operations.undo).task \in Range(tasks)) =>
          LET op == Top(operations.undo)
              was == Top(ghost.undo).pre
          IN /\ last'.ok
             /\ last'.ret = Some(Some(op.task))
             /\ heap'[op.task] = was[PosOf(tasks, op.task)].inner
             /\ \A h \in Handles \ {op.task} : heap'[h] = heap[h]
             /\ tasks' = tasks]_vars

\* An update that changed a stored task's tags was undone: the handle, still
\* at its index, shows the former tags and not the replacement's.
C7_Witness ==
  /\ last.call = "undo" /\ last.ok
  /\ operations.redo # <<>>
  /\ Top(operations.redo).kind = "Update"
  /\ Top(operations.redo).task \in Range(tasks)
  /\ heap[Top(operations.redo).task].tags # Top(operations.redo).updated.tags
  /\ heap[Top(operations.redo).task].summary = Top(operations.redo).updated.summary
  /\ Top(ghost.redo).post # Cur

\* C8: two updates of one stored task, executed one right after the other
\* and then undone.  After the first undo the task shows the first update's
\* summary and tags; after the second it shows the content it had before
\* the first update.
C8_TwoUpdatesTwoUndos ==
  /\ (/\ ~panicked
      /\ operations.undo # <<>> /\ operations.redo # <<>>
      /\ Top(operations.undo).kind = "Update"
      /\ Top(operations.redo).kind = "Update"
      /\ Top(operations.undo).task = Top(operations.redo).task
      /\ Top(operations.undo).task \in Range(tasks)) =>
       LET first == Top(operations.undo)
       IN /\ heap[first.task].summary = first.updated.summary
          /\ heap[first.task].tags = first.updated.tags
  /\ (/\ ~panicked
      /\ Len(operations.redo) >= 2
      /\ Top(operations.redo).kind = "Update"
      /\ Top(Front(operations.redo)).kind = "Update"
      /\ Top(operations.redo).task = Top(Front(operations.redo)).task
      /\ Top(operations.redo).task \in Range(tasks)) =>
       LET first == Top(operations.redo)
           was == Top(ghost.redo).pre
       IN heap[first.task] = was[PosOf(tasks, first.task)].inner

\* A task was updated to summary "x", then to summary "y", and both updates
\* were undone: its summary is neither of the two.
C8_Witness ==
  /\ last.call = "undo" /\ last.ok
  /\ Len(operations.redo) = 2
  /\ operations.redo[1].kind = "Update" /\ operations.redo[2].kind = "Update"
  /\ operations.redo[1].task = operations.redo[2].task
  /\ operations.redo[2].updated.summary = "x"
  /\ operations.redo[1].updated.summary = "y"
  /\ operations.redo[2].task \in Range(tasks)
  /\ heap[operations.redo[2].task].summary \notin {"x", "y"}

\* C9: move_before(e, e) and move_after(e, e) return normally and change
\* neither the store, nor any task, nor the undo stack, nor the redo stack.
C9_MoveToSelfIsNoOp ==
  [][(last'.call \in {"move_before", "move_after"} /\ last'.self) =>
       /\ last'.ok /\ ~panicked'
       /\ UNCHANGED <<tasks, heap, operations>>]_vars

\* A task was moved after itself while both stacks held an operation.
C9_Witness ==
  /\ last.call = "move_after" /\ last.self /\ last.ok
  /\ operations.undo # <<>> /\ operations.redo # <<>>
  /\ Len(tasks) >= 2

\* C10: a successful add(summary, tags, after) returns a handle that was not
\* in the store and puts it in exactly once: right behind `after` when
\* that is given, every handle further back moving one index up, and at the
\* end otherwise.  The store grows by one and no task's content changes.
C10_AddInsertsOne ==
  [][(last'.call = "add" /\ last'.ok) =>
       LET op == Top(operations'.undo)
           new == op.task
       IN /\ op.kind = "Add"
          /\ last'.ret = Some(new)
          /\ new \notin Range(tasks)
          /\ Len(tasks') = Len(tasks) + 1
          /\ \A h \in Handles : heap'[h] = heap[h]
          /\ IF IsSome(op.after)
             THEN LET i == PosOf(tasks, Unwrap(op.after))
                  IN /\ tasks'[i + 1] = new
                     /\ \A j \in 1..i : tasks'[j] = tasks[j]
                     /\ \A j \in (i + 1)..Len(tasks) : tasks'[j + 1] = tasks[j]
             ELSE tasks' = Append(tasks, new)]_vars

\* A task was added behind the first of two tasks: it is at index 1 and the
\* former second task at index 2.
C10_Witness ==
  /\ last.call = "add" /\ last.ok
  /\ Top(operations.undo).kind = "Add"
  /\ Top(operations.undo).after = Some(tasks[1])
  /\ Len(tasks) = 3
  /\ tasks[2] = Top(operations.undo).task
  /\ last.ret = Some(tasks[2])

\* The store without one handle, the others in their order.
Without(db, task) == SelectSeq(db, LAMBDA h : h # task)

\* C11: for distinct tasks a and b that are both in the store,
\* move_before(a, b) returns normally with a right before b and
\* move_after(a, b) with a right after b; either way the store keeps its
\* length, the tasks other than a keep their relative order and no task's
\* content changes.
C11_MoveAdjacent ==
  [][(last'.call \in {"move_before", "move_after"} /\ nops' = nops + 1) =>
       \A a, b \in Range(tasks) :
         a # b =>
           /\ (last'.call = "move_before" /\ Tasks_move_before(a, b)) =>
                /\ last'.ok
                /\ Len(tasks') = Len(tasks)
                /\ a \in Range(tasks') /\ b \in Range(tasks')
                /\ PosOf(tasks', a) + 1 = PosOf(tasks', b)
                /\ Without(tasks', a) = Without(tasks, a)
                /\ heap' = heap
           /\ (last'.call = "move_after" /\ Tasks_move_after(a, b)) =>
                /\ last'.ok
                /\ Len(tasks') = Len(tasks)
                /\ a \in Range(tasks') /\ b \in Range(tasks')
                /\ PosOf(tasks', a) = PosOf(tasks', b) + 1
                /\ Without(tasks', a) = Without(tasks, a)
                /\ heap' = heap]_vars

\* The first of three tasks was moved before the last one: it is now in the
\* middle, right before the last.
C11_Witness ==
  /\ last.call = "move_before" /\ last.ok /\ ~last.self
  /\ Len(tasks) = 3
  /\ Top(operations.undo).kind = "Move"
  /\ Top(operations.undo).from = 0
  /\ Top(operations.undo).task = Some(tasks[2])
  /\ Top(operations.undo).to = Before(tasks[3])
  /\ Top(ghost.undo).pre # Cur

\* C12: undoing a Move returns normally, puts the moved task back at the
\* index it was moved from and leaves the store exactly as it was right
\* before the move, whatever the target's kind and the move's direction.
C12_UndoMoveRestoresOrder ==
  [][(last'.call = "undo" /\ operations.undo # <<>>
      /\ Top(operations.undo).kind = "Move") =>
       LET op == Top(operations.undo)
           was == Top(ghost.undo).pre
       IN /\ last'.ok
          /\ last'.ret = Some(op.task)
          /\ Len(tasks') = Len(tasks)
          /\ tasks'[op.from + 1] = Unwrap(op.task)
          /\ was[op.from + 1].task = Unwrap(op.task)
          /\ heap' = heap
          /\ View(tasks', heap') = was]_vars

\* The first of three tasks had been moved behind the last one, towards
\* the end, and the move was undone: the task is first again.
C12_Witness ==
  /\ last.call = "undo" /\ last.ok
  /\ operations.redo # <<>>
  /\ Top(operations.redo).kind = "Move"
  /\ Top(operations.redo).from = 0
  /\ Top(operations.redo).to.kind = "After"
  /\ Len(tasks) = 3
  /\ Top(operations.redo).to.task = tasks[3]
  /\ Top(operations.redo).task = Some(tasks[1])
  /\ Top(ghost.redo).post # Cur

\* C13: undo on an empty undo stack and redo on an empty redo stack return
\* normally with the outer None and change neither the store, nor any
\* task, nor either stack; an undo or redo that did something returns
\* Some(..), also when the operation's own result is None (the undo of an
\* Add, the redo of a Remove).
C13_EmptyHistoryIsNoOp ==
  [][/\ (last'.call = "undo" /\ operations.undo = <<>>) =>
          /\ last'.ok /\ ~panicked' /\ last'.ret = None
          /\ UNCHANGED <<tasks, heap, operations>>
     /\ (last'.call = "redo" /\ operations.redo = <<>>) =>
          /\ last'.ok /\ ~panicked' /\ last'.ret = None
          /\ UNCHANGED <<tasks, heap, operations>>
     /\ (last'.call = "undo" /\ operations.undo # <<>> /\ last'.ok) =>
          /\ last'.ret # None
          /\ Top(operations.undo).kind = "Add" => last'.ret = Some(None)
     /\ (last'.call = "redo" /\ operations.redo # <<>> /\ last'.ok) =>
          /\ last'.ret # None
          /\ Top(operations.redo).kind = "Remove" =>
               last'.ret = Some(None)]_vars

\* An Add was undone, which returned Some(None), and a second undo found
\* the stack empty and returned None: the undone Add is still the one to
\* redo.
C13_Witness ==
  /\ last.call = "undo" /\ last.ok /\ last.ret = None
  /\ ghost.nevict = 0 /\ ~ghost.discarded
  /\ operations.undo = <<>>
  /\ Len(operations.redo) = 1
  /\ Top(operations.redo).kind = "Add"
  /\ Cur = ghost.init

\* C14: in every reachable state the store is a sequence of task handles
\* (its positions are 0..len-1 without a gap) that holds no handle twice.
C14_StoreDenseAndUnique ==
  /\ tasks \in Seq(Handles)
  /\ DOMAIN tasks = 1..Len(tasks)
  /\ \A i, j \in 1..Len(tasks) : tasks[i] = tasks[j] => i = j
  /\ Cardinality(Range(tasks)) = Len(tasks)

\* A task was added behind the first one and then moved to the front: the
\* store holds three different handles, the new one first.
C14_Witness ==
  /\ ~panicked /\ Len(tasks) = 3
  /\ Len(operations.undo) = 2
  /\ operations.undo[1].kind = "Add"
  /\ operations.undo[2].kind = "Move"
  /\ operations.undo[2].task = Some(operations.undo[1].task)
  /\ operations.undo[2].from = 1
  /\ tasks[1] = operations.undo[1].task
  /\ Cardinality(Range(tasks)) = 3

\* C15: the tasks in the store of a Tasks object that was built from a
\* persisted list and extended with add have pairwise distinct
\* identifiers.
C15_DistinctIds ==
  (/\ ghost.nevict = 0
   /\ \A i \in 1..Len(operations.undo) : operations.undo[i].kind = "Add"
   /\ \A i \in 1..Len(operations.redo) : operations.redo[i].kind = "Add") =>
    \A i, j \in 1..Len(tasks) :
      i # j => heap[tasks[i]].id # heap[tasks[j]].id

\* C16: the identifier behind a task handle never changes: whatever facade
\* call is made, every handle reports the identifier it reported before
\* the call.
C16_IdNeverChanges ==
  [][\A h \in Handles : heap'[h].id = heap[h].id]_vars

\* C17: building a Tasks object from a persisted list returns
\* Err(InvalidInput) exactly when some task of the list names a tag the
\* registry cannot instantiate.  There is then no Tasks object: no store, no
\* task, not even for the tasks that precede the offending one, and no
\* facade call is ever made.  Otherwise the result is Ok and the new object
\* holds one task per task of the list.
C17_InvalidTagFailsAtomically ==
  LET bad == \E i \in 1..Len(ghost.list) :
               \E t \in Range(ghost.list[i].tags) : ~Instantiable(t)
  IN /\ result \in {"Ok", "InvalidInput"}
     /\ bad => /\ result = "InvalidInput"
               /\ tasks = <<>> /\ heap = <<>>
               /\ operations.undo = <<>> /\ operations.redo = <<>>
               /\ last.call = "new" /\ nops = 0
     /\ ~bad => /\ result = "Ok"
                /\ Len(ghost.init) = Len(ghost.list)

\* The list whose second task names an unknown tag was given: the result is
\* the error and the first task, whose tags are fine, is in no store.
C17_Witness ==
  /\ result = "InvalidInput"
  /\ Len(ghost.list) = 3
  /\ \A t \in Range(ghost.list[1].tags) : Instantiable(t)
  /\ \E t \in Range(ghost.list[2].tags) : ~Instantiable(t)
  /\ tasks = <<>>

\* C18: Tasks::to_serde loses nothing and keeps the order.  Right after
\* with_serde(L) it lists L's tasks in L's order, each with its identifier,
\* its summary and its tag identifiers (as a set: a tag listed twice in L is
\* listed once); in every later state it has one entry per position of the
\* store, with the identifier, summary and tags of the task at that
\* position.
C18_ToSerdeLossless ==
  result = "Ok" =>
    LET ser == Tasks_to_serde(tasks, heap)
    IN /\ last.call = "new" =>
            /\ Len(ser) = Len(ghost.list)
            /\ \A i \in 1..Len(ser) :
                 /\ ser[i].id = ghost.list[i].id
                 /\ ser[i].summary = ghost.list[i].summary
                 /\ Range(ser[i].tags) = Range(ghost.list[i].tags)
       /\ Len(ser) = Len(tasks)
       /\ \A i \in 1..Len(tasks) :
            /\ ser[i].id = heap[tasks[i]].id
            /\ ser[i].summary = heap[tasks[i]].summary
            /\ Range(ser[i].tags) = heap[tasks[i]].tags
            /\ Len(ser[i].tags) = Cardinality(heap[tasks[i]].tags)

\* The second of the two loaded tasks was moved to the front and then got
\* another summary: to_serde lists it first, with the new summary and its
\* tag.
C18_Witness ==
  /\ result = "Ok" /\ ~panicked
  /\ ghost.list = TwoTasks
  /\ Len(operations.undo) = 2
  /\ operations.undo[1].kind = "Move"
  /\ operations.undo[2].kind = "Update"
  /\ Tasks_to_serde(tasks, heap)
       = <<SerTask(2, "x", <<COMPLETE_TAG>>), SerTask(1, "1", <<>>)>>

\* C19 as stated: never more than one borrow of the store and the log at a
\* time, and every add, remove, update, move, undo or redo attempted while
\* a borrow is outstanding panics and changes neither the store nor the
\* log.
C19_AtMostOneBorrow ==
  [][/\ borrow' <= 1
     /\ (borrow > 0 /\ borrow' = borrow) =>
          /\ panicked' /\ ~last'.ok
          /\ UNCHANGED <<tasks, heap, operations>>]_vars

\* C19, amended: shared borrows nest (Tasks::iter inside the callback of
\* Tasks::iter never fails), and a call that borrows mutably while a shared
\* borrow is outstanding panics at once: add, remove, update, undo, redo
\* and the move of a task relative to another task.  The move of a task
\* relative to itself borrows nothing and returns normally.  None of these
\* calls changes the store, a task or the log.
C19_MutableBorrowIsExclusive ==
  [][/\ borrow' # borrow =>
          /\ ~panicked'
          /\ UNCHANGED <<tasks, heap, operations, last>>
     /\ (borrow > 0 /\ borrow' = borrow) =>
          /\ UNCHANGED <<tasks, heap, operations>>
          /\ IF last'.self
             THEN last'.ok /\ ~panicked'
             ELSE ~last'.ok /\ panicked' /\ last'.ret = None]_vars

\* After one operation, undo was called inside the callback of Tasks::iter:
\* it panicked and the operation is still the one to undo.
C19_Witness ==
  /\ borrow = 1 /\ panicked
  /\ last.call = "undo" /\ ~last.ok
  /\ nops = 1 /\ Len(operations.undo) = 1
  /\ Cur = Top(ghost.undo).post

\* The call panicked and left the store's order as it was.
Fatal == panicked' /\ ~last'.ok /\ tasks' = tasks

\* C20 as stated: remove(e), move_before(e, o), move_after(e, o) and
\* add(.., after = e) with e not in the store panic, for every o, and leave
\* the store's order as it was.
C20_AbsentEntityAlwaysFatal ==
  [][last'.call \in {"remove", "move_before", "move_after", "add"} =>
       \A e \in Handles \ Range(tasks) :
         /\ (last'.call = "remove" /\ Tasks_remove(e)) => Fatal
         /\ \A o \in Handles :
              /\ (last'.call = "move_before" /\ Tasks_move_before(e, o)) =>
                   Fatal
              /\ (last'.call = "move_after" /\ Tasks_move_after(e, o)) =>
                   Fatal
         /\ \A in \in AddInputs :
              (last'.call = "add" /\ Tasks_add(in.summary, in.tags, Some(e))) =>
                Fatal]_vars

\* C20, amended: remove(e), add(.., after = e) and, for o other than e,
\* move_before(e, o) and move_after(e, o), with e not in the store, panic
\* and leave the store's order as it was; move_before(e, e) and
\* move_after(e, e) return normally and change nothing, whether e is in the
\* store or not.
C20_AbsentEntityIsFatal ==
  [][last'.call \in {"remove", "move_before", "move_after", "add"} =>
       \A e \in Handles \ Range(tasks) :
         /\ (last'.call = "remove" /\ Tasks_remove(e)) => Fatal
         /\ \A o \in Handles \ {e} :
              /\ (last'.call = "move_before" /\ Tasks_move_before(e, o)) =>
                   Fatal
              /\ (last'.call = "move_after" /\ Tasks_move_after(e, o)) =>
                   Fatal
         /\ (last'.call = "move_before" /\ Tasks_move_before(e, e)) =>
              /\ last'.ok /\ ~panicked'
              /\ UNCHANGED <<tasks, heap, operations>>
         /\ (last'.call = "move_after" /\ Tasks_move_after(e, e)) =>
              /\ last'.ok /\ ~panicked'
              /\ UNCHANGED <<tasks, heap, operations>>
         /\ \A in \in AddInputs :
              (last'.call = "add" /\ Tasks_add(in.summary, in.tags, Some(e))) =>
                Fatal]_vars

\* A task was removed and remove was called on it once more: the call
\* panicked, and the store still holds the other task alone.
C20_Witness ==
  /\ panicked /\ last.call = "remove" /\ ~last.ok
  /\ Len(operations.undo) = 2
  /\ operations.undo[1].kind = "Remove" /\ operations.undo[2].kind = "Remove"
  /\ operations.undo[1].task = operations.undo[2].task
  /\ operations.undo[2].position = None
  /\ operations.undo[2].task \notin Range(tasks)
  /\ Len(tasks) = 1

\* C21: the tags of a task that was made without tags behave as a set.
\* set_tag(t) returns true exactly when t was not set and leaves t set;
\* unset_tag(t) returns true exactly when t was set and leaves t unset;
\* neither touches another tag, the summary or the identifier; has_tag(t)
\* changes nothing and is true exactly when the most recent of the set_tag(t)
\* and unset_tag(t) calls made so far was a set_tag(t); a call that repeats
\* the one before it, with the same tag, returns false and leaves the tags
\* as they are.
C21_TagsBehaveAsSet ==
  [][LET t == Unwrap(ghost'.tag)
         was == heap[1].tags
         now == heap'[1].tags
     IN /\ heap'[1].id = heap[1].id /\ heap'[1].summary = heap[1].summary
        /\ last'.call = "set_tag" =>
             /\ last'.ret = (t \notin was)
             /\ now = was \cup {t}
             /\ (last.call = "set_tag" /\ ghost.tag = Some(t)) =>
                  ~last'.ret /\ now = was
        /\ last'.call = "unset_tag" =>
             /\ last'.ret = (t \in was)
             /\ now = was \ {t}
             /\ (last.call = "unset_tag" /\ ghost.tag = Some(t)) =>
                  ~last'.ret /\ now = was
        /\ last'.call = "has_tag" =>
             /\ last'.ret = (t \in ghost.set)
             /\ last'.ret = (t \in was)
             /\ now = was]_vars

\* A tag was set on a task that holds another tag, and set once more: the
\* second call returned false and both tags are set.
C21_Witness ==
  /\ last.call = "set_tag" /\ last.ret = FALSE
  /\ ghost.tag = Some(COMPLETE_TAG)
  /\ heap[1].tags = {COMPLETE_TAG, COMPLETE_TAG + 1}
  /\ ghost.set = heap[1].tags

\* C22: serialized identifiers round-trip.  An Id serializes to its bare
\* number, the decimal digits of its value and nothing else, and
\* deserializing what an Id was serialized to succeeds with an Id of the
\* same value, for every Id there is: those of try_from for every non-zero
\* usize and those of allocate_id.
C22_IdRoundTrip ==
  /\ (last.call = "serialize") =>
       /\ IsSome(ghost.text) /\ IsSome(ghost.orig)
       /\ Unwrap(ghost.text) = Digits(Unwrap(ghost.orig))
       /\ Number(Unwrap(ghost.text)) = Unwrap(ghost.orig)
       /\ Id_deserialize(Unwrap(ghost.text)).ok
       /\ Id_deserialize(Unwrap(ghost.text)).id = Unwrap(ghost.orig)
  /\ (last.call = "deserialize" /\ IsSome(ghost.orig)) =>
       /\ last.ok
       /\ ghost.id = ghost.orig
       /\ ghost.text = Some(Id_serialize(Unwrap(ghost.id)))

\* The largest usize was made an Id, serialized to two digits and
\* deserialized.
C22_Witness ==
  /\ last.call = "deserialize" /\ last.ok
  /\ ghost.orig = Some(UsizeMax)
  /\ Len(Unwrap(ghost.text)) = 2
  /\ ghost.id = Some(UsizeMax)

\* C23: zero is never an identifier.  Id::try_from(0) fails, deserializing
\* the number 0 fails with an invalid-value error, and every Id that comes
\* out of allocate_id, try_from or deserialize has a value other than zero.
C23_ZeroIsNoId ==
  /\ IsSome(ghost.id) => Id_get(Unwrap(ghost.id)) \in 1..UsizeMax
  /\ last.call \in {"allocate_id", "try_from", "deserialize"} =>
       (last.ok <=> IsSome(ghost.id))
  /\ (last.call = "try_from" /\ ghost.arg = Some(0)) => ~last.ok
  /\ (last.call = "try_from" /\ ghost.arg # Some(0)) => ghost.id = ghost.arg
  /\ (last.call = "deserialize" /\ ghost.text = Some(<<0>>)) =>
       ~last.ok /\ last.ret = "invalid_value"
  /\ (last.call = "allocate_id" /\ ~last.ok) => panicked /\ next_id = 1

\* The number 0 was deserialized: the result is the error and no Id.
C23_Witness ==
  /\ last.call = "deserialize" /\ ~last.ok
  /\ ghost.text = Some(Digits(0))
  /\ ghost.id = None

\* C24 as stated: the undo of an Update overwrites the task with the
\* recorded `before` copy and stores the content the task had right before
\* that overwrite in the operation's `before` slot.
C24_UndoUpdateRecapturesBefore ==
  [][(last'.call = "undo" /\ last'.ok /\ operations.undo # <<>>
      /\ Top(operations.undo).kind = "Update") =>
       LET op == Top(operations.undo)
       IN /\ heap'[op.task] = Unwrap(op.before)
          /\ Top(operations'.redo).before = Some(heap[op.task])]_vars

\* C24, amended: the undo of an Update overwrites the task with the
\* recorded `before` copy and leaves the operation as it was: its `before`
\* slot still holds the content the task had before the update was first
\* executed, its replacement is untouched.  The slot is written by exec
\* alone: a redo stores the content the task had right before the redo.
C24_UndoUpdateKeepsBefore ==
  [][/\ (last'.call = "undo" /\ last'.ok /\ operations.undo # <<>>
         /\ Top(operations.undo).kind = "Update") =>
          LET op == Top(operations.undo)
          IN /\ heap'[op.task] = Unwrap(op.before)
             /\ Top(operations'.redo) = op
     /\ (last'.call = "redo" /\ last'.ok /\ operations.redo # <<>>
         /\ Top(operations.redo).kind = "Update") =>
          LET op == Top(operations.redo)
          IN /\ heap'[op.task] = op.updated
             /\ Top(operations'.undo) = [op EXCEPT !.before = Some(heap[op.task])]]_vars

\* An update that changed a stored task was undone: the task shows the
\* content of the `before` slot again, and the slot does not hold the
\* content the update had given the task.
C24_Witness ==
  /\ last.call = "undo" /\ last.ok
  /\ operations.redo # <<>>
  /\ Top(operations.redo).kind = "Update"
  /\ Top(operations.redo).task \in Range(tasks)
  /\ Top(operations.redo).before = Some(heap[Top(operations.redo).task])
  /\ Top(operations.redo).before # Some(Top(operations.redo).updated)
  /\ Top(ghost.redo).post # Cur

\* What a returned handle shows once the call has returned.
Shown(ret) == heap'[Unwrap(ret)]

\* C25 as stated: what an Update returns shows the old content.  After the
\* update of a task the result shows the content the task had before the
\* update, and after the undo of an update the content the task had before
\* the undo.
C25_UpdateReturnsOldContent ==
  [][/\ (last'.call = "update" /\ last'.ok) =>
          /\ IsSome(last'.ret)
          /\ Shown(last'.ret) = heap[Top(operations'.undo).task]
     /\ (last'.call = "undo" /\ last'.ok /\ operations.undo # <<>>
         /\ Top(operations.undo).kind = "Update") =>
          /\ IsSome(last'.ret) /\ IsSome(Unwrap(last'.ret))
          /\ Shown(Unwrap(last'.ret)) = heap[Top(operations.undo).task]]_vars

\* C25, amended: an Update returns the handle of the task in each
\* direction, never a copy.  After update(task, updated) the result is
\* `task` itself and shows updated's content; after the undo of the update
\* the result is `task` itself and shows the content the task had before
\* the update; the content the call replaced is kept in the `before` slot
\* (exec) or dropped (undo).
C25_UpdateReturnsHandle ==
  [][/\ (last'.call = "update" /\ last'.ok) =>
          LET op == Top(operations'.undo)
          IN /\ last'.ret = Some(op.task)
             /\ Shown(last'.ret) = op.updated
             /\ op.before = Some(heap[op.task])
     /\ (last'.call = "undo" /\ last'.ok /\ operations.undo # <<>>
         /\ Top(operations.undo).kind = "Update") =>
          LET op == Top(operations.undo)
          IN /\ last'.ret = Some(Some(op.task))
             /\ Shown(Unwrap(last'.ret)) = Unwrap(op.before)]_vars

\* A stored task with summary "1" was updated to summary "x": the call
\* returned the task's handle, which shows "x".
C25_Witness ==
  /\ last.call = "update" /\ last.ok
  /\ Top(operations.undo).kind = "Update"
  /\ last.ret = Some(Top(operations.undo).task)
  /\ Top(operations.undo).task \in Range(tasks)
  /\ Unwrap(Top(operations.undo).before).summary = "1"
  /\ heap[Unwrap(last.ret)].summary = "x"

\* C26: what a successful undo returns is fixed by the kind of the
\* operation it undid: for a Remove the handle it put back into the store,
\* for a Move the handle it moved back, for an Update the handle of the
\* reverted task, which the store holds, and for an Add no handle.
C26_UndoResultByKind ==
  [][(last'.call = "undo" /\ last'.ok /\ operations.undo # <<>>) =>
       LET op == Top(operations.undo)
       IN /\ IsSome(last'.ret)
          /\ op.kind = "Add" =>
               /\ last'.ret = Some(None)
               /\ op.task \notin Range(tasks')
          /\ op.kind = "Remove" =>
               /\ last'.ret = Some(Some(op.task))
               /\ op.task \notin Range(tasks)
               /\ op.task \in Range(tasks')
          /\ op.kind = "Move" =>
               /\ IsSome(op.task)
               /\ last'.ret = Some(op.task)
               /\ tasks'[op.from + 1] = Unwrap(op.task)
          /\ op.kind = "Update" =>
               /\ last'.ret = Some(Some(op.task))
               /\ op.task \in Range(tasks')]_vars

\* A task was removed and another one updated; the update was undone,
\* which returned the updated task, and then the removal, which returned
\* the removed one.
C26_Witness ==
  /\ last.call = "undo" /\ last.ok
  /\ Len(operations.redo) = 2 /\ operations.undo = <<>>
  /\ operations.redo[1].kind = "Update"
  /\ operations.redo[2].kind = "Remove"
  /\ last.ret = Some(Some(operations.redo[2].task))
  /\ operations.redo[2].task # operations.redo[1].task
  /\ operations.redo[2].task \in Range(tasks)

Reverse(s) == [i \in 1..Len(s) |-> s[Len(s) + 1 - i]]

\* The operations of the log in the order they were executed: the undo
\* stack from its oldest entry, then the undone ones, the most recently
\* undone first.
History(ops) == ops.undo \o Reverse(ops.redo)

\* The copies an Update holds are the content its task had right before
\* (before) and right after (updated) its first exec, as recorded in g.
UpdateCopiesAsRecorded(op, g) ==
  (op.kind = "Update" /\ \E i \in 1..Len(g.pre) : g.pre[i].task = op.task) =>
    LET i == CHOOSE i \in 1..Len(g.pre) : g.pre[i].task = op.task
    IN /\ op.before = Some(g.pre[i].inner)
       /\ op.updated = g.post[i].inner

\* C27: deep copies stay frozen.  The replacement and the `before` copy an
\* Update holds are, in every state that follows its exec, the content its
\* task had right after and right before that exec, whatever was executed,
\* undone or redone since on that task or another; no undo and no redo
\* changes any operation of the log, no exec changes an operation it does
\* not evict; and redo gives the task exactly the replacement update was
\* called with.
C27_SnapshotsFrozen ==
  [][(last'.ok /\ ~last'.self) =>
       /\ last'.call \in {"undo", "redo"} =>
            History(operations') = History(operations)
       /\ last'.call \in ExecCalls =>
            Front(operations'.undo)
              = IF Len(operations.undo) >= operations.max_count
                THEN Tail(operations.undo)
                ELSE operations.undo
       /\ \A i \in 1..Len(operations'.undo) :
            UpdateCopiesAsRecorded(operations'.undo[i], ghost'.undo[i])
       /\ \A i \in 1..Len(operations'.redo) :
            UpdateCopiesAsRecorded(operations'.redo[i], ghost'.redo[i])
       /\ (last'.call = "redo" /\ operations.redo # <<>>
           /\ Top(operations.redo).kind = "Update") =>
            /\ heap'[Top(operations.redo).task] = Top(operations.redo).updated
            /\ Top(operations'.undo).updated = Top(operations.redo).updated]_vars

\* A stored task was updated to "x" and then to "y", and both updates
\* were undone and the first redone: the task shows "x", the first
\* update still holds "x" as its replacement and the second one "x" as
\* its `before` copy and "y" as its replacement.
C27_Witness ==
  /\ last.call = "redo" /\ last.ok
  /\ Len(operations.undo) = 1 /\ Len(operations.redo) = 1
  /\ operations.undo[1].kind = "Update" /\ operations.redo[1].kind = "Update"
  /\ operations.undo[1].task = operations.redo[1].task
  /\ operations.undo[1].task \in Range(tasks)
  /\ operations.undo[1].updated.summary = "x"
  /\ heap[operations.undo[1].task].summary = "x"
  /\ Unwrap(operations.redo[1].before).summary = "x"
  /\ operations.redo[1].updated.summary = "y"

\* C28: every facade call is atomic.  A call that ends in a panic leaves
\* the store as it was before the call; in particular a move whose target
\* is not in the store does not leave the store without the task it was
\* to move.
C28_OperationsAtomic ==
  [][/\ ~last'.ok => tasks' = tasks
     /\ last'.call \in {"move_before", "move_after"} =>
          Range(tasks') = Range(tasks)]_vars

C30_AllocationFresh ==
  [][(last'.call = "add" /\ last'.ok) =>
       LET id == heap'[Top(operations'.undo).task].id
       IN /\ id = next_id
          /\ \A h \in Handles : h > Len(ghost.init) => heap[h].id < id
          /\ \A h \in Handles \ Range(tasks) : heap[h].id # id]_vars

\* The step is a call of add, remove, update, undo, redo or a move, not the
\* entry into or the return from a callback.
FacadeCall == borrow' = borrow /\ task_borrow' = task_borrow

\* The Update a call of update, undo or redo is about to apply, if any.
UpdateApplied ==
  CASE last'.call = "update" -> Some(Top(operations'.undo))
    [] last'.call = "undo" /\ operations.undo # <<>>
       /\ Top(operations.undo).kind = "Update" -> Some(Top(operations.undo))
    [] last'.call = "redo" /\ operations.redo # <<>>
       /\ Top(operations.redo).kind = "Update" -> Some(Top(operations.redo))
    [] OTHER -> None

Held(ops) == Len(ops.undo) + Len(ops.redo)

\* C32: the undo and redo stacks together never hold more than
\* max_count operations, so re-applying an operation never evicts one: a
\* redo that returns something puts the operation on top of the whole undo
\* stack as it was, an undo that returns something puts the operation on
\* top of the whole redo stack as it was, each moves exactly one operation
\* and leaves the combined size alone; an undo or redo that has nothing to
\* do moves nothing.
C32_StacksBounded ==
  [][/\ Held(operations') <= operations'.max_count
     /\ operations'.max_count = operations.max_count
     /\ (last'.call = "redo" /\ last'.ok) =>
          /\ ghost'.nevict = ghost.nevict
          /\ Held(operations') = Held(operations)
          /\ IF operations.redo = <<>>
             THEN operations' = operations
             ELSE /\ Front(operations'.undo) = operations.undo
                  /\ operations'.redo = Front(operations.redo)
     /\ (last'.call = "undo" /\ last'.ok) =>
          /\ ghost'.nevict = ghost.nevict
          /\ Held(operations') = Held(operations)
          /\ IF operations.undo = <<>>
             THEN operations' = operations
             ELSE /\ Front(operations'.redo) = operations.redo
                  /\ operations'.undo = Front(operations.undo)]_vars

\* A log of capacity one had its only operation undone and re-applied: the
\* redo filled the undo stack to its capacity and evicted nothing.
C32_Witness ==
  /\ last.call = "redo" /\ last.ok /\ last.ret # None
  /\ operations.max_count = SmallUndoCount
  /\ Len(operations.undo) = operations.max_count
  /\ operations.redo = <<>>
  /\ ghost.nevict = 0

\* The operation a step applies, as it is once applied: the one a call of
\* add, remove, update or a move has pushed, the one an undo pops, the one a
\* redo re-applies.
Applied ==
  CASE nops' = nops + 1 -> Some(Top(operations'.undo))
    [] nops' = nops /\ last'.call = "undo" /\ operations.undo # <<>> ->
         Some(Top(operations.undo))
    [] nops' = nops /\ last'.call = "redo" /\ operations.redo # <<>> ->
         Some(IF last'.ok THEN Top(operations'.undo)
              ELSE Top(operations.redo))
    [] OTHER -> None

\* The entity an operation names; for a Move, the task it takes out of the
\* store.
Named(op, db) ==
  IF op.kind # "Move" THEN Some(op.task)
  ELSE IF IsSome(op.task) THEN op.task
  ELSE Db_get(db, op.from)

\* C33: each operation touches only what it names.  Applying, undoing or
\* re-applying an Update leaves the order of the store and the content of
\* every other task as they were; applying, undoing or re-applying an Add,
\* a Remove or a Move leaves the content of every task as it was and the
\* tasks other than the one added, removed or moved in their order.  A
\* step that applies no operation changes neither the store nor a task.
C33_TouchesOnlyWhatItNames ==
  [][IF IsSome(Applied)
     THEN LET op == Unwrap(Applied)
              e == Named(op, tasks)
          IN /\ Len(heap') >= Len(heap)
             /\ \A h \in 1..Len(heap) :
                  (op.kind # "Update" \/ Some(h) # e) => heap'[h] = heap[h]
             /\ op.kind = "Update" => tasks' = tasks
             /\ op.kind # "Update" =>
                  /\ IsSome(e)
                  /\ Without(tasks', Unwrap(e)) = Without(tasks, Unwrap(e))
                  /\ Range(tasks') \ {Unwrap(e)} = Range(tasks) \ {Unwrap(e)}
     ELSE tasks' = tasks /\ heap' = heap]_vars

\* The first of two tasks was given another summary, the update was undone
\* and re-applied: the first task shows the new summary again, the second
\* task is as it was loaded and the two are in their order.
C33_Witness ==
  /\ last.call = "redo" /\ last.ok /\ last.ret # None
  /\ Len(tasks) = 2 /\ Len(ghost.init) = 2 /\ Len(operations.undo) = 1
  /\ Top(operations.undo).kind = "Update"
  /\ Top(operations.undo).task = tasks[1]
  /\ heap[tasks[1]].summary # ghost.init[1].inner.summary
  /\ heap[tasks[2]].summary # heap[tasks[1]].summary
  /\ ghost.init[2] = Cur[2]

\* C34: every call of add, remove, update, move_before or move_after that
\* returns, a move naming two distinct tasks, records exactly one entry:
\* the operation is on top of the undo stack, above the entries that were
\* there (less the oldest one when the stack was full), and the redo stack
\* is empty.  That holds as well for a move that leaves the order as it
\* was (a task moved before the task it already precedes or after the task
\* it already follows); the undo that follows such a move returns
\* something, takes that entry off the undo stack, puts it on the redo
\* stack and leaves the order as it was.
C34_EveryCallRecorded ==
  [][/\ (last'.call \in ExecCalls /\ last'.ok /\ ~last'.self) =>
          /\ nops' = nops + 1
          /\ operations'.undo # <<>>
          /\ operations'.redo = <<>>
          /\ Front(operations'.undo)
               = IF Len(operations.undo) >= operations.max_count
                 THEN Tail(operations.undo) ELSE operations.undo
          /\ Top(operations'.undo).kind
               = CASE last'.call = "add" -> "Add"
                   [] last'.call = "remove" -> "Remove"
                   [] last'.call = "update" -> "Update"
                   [] OTHER -> "Move"
     /\ (last.call \in {"move_before", "move_after"} /\ last.ok /\ ~last.self
         /\ ~panicked /\ last'.call = "undo") =>
          /\ last'.ok /\ last'.ret # None
          /\ operations.undo # <<>>
          /\ operations'.undo = Front(operations.undo)
          /\ operations'.redo = <<Top(operations.undo)>>
          /\ Top(ghost.undo).pre = Top(ghost.undo).post => tasks' = tasks]_vars

\* The first of two tasks was moved before the second, where it already
\* was, and the move was undone: the undo returned the task, the move is
\* the one operation to redo and the store is as it was loaded.
C34_Witness ==
  /\ last.call = "undo" /\ last.ok /\ last.ret # None
  /\ nops = 1 /\ operations.undo = <<>> /\ Len(operations.redo) = 1
  /\ Top(operations.redo).kind = "Move"
  /\ Top(operations.redo).to.kind = "Before"
  /\ Len(tasks) = 2
  /\ Top(operations.redo).task = Some(tasks[1])
  /\ Top(operations.redo).to.task = tasks[2]
  /\ Top(ghost.redo).pre = Top(ghost.redo).post
  /\ Cur = ghost.init

\* C35: history is not persisted.  The object built from a saved list,
\* also one saved by an object that had operations to undo or redo, lists
\* the same tasks and has an empty undo stack and an empty redo stack of
\* capacity MAX_UNDO_STEP_COUNT; as long as no operation was executed on an
\* object since it was built, undo and redo return None and change
\* neither the store nor a task nor the stacks.
C35_HistoryNotPersisted ==
  [][/\ last'.call = "new" =>
          /\ operations' = [undo |-> <<>>, redo |-> <<>>,
                            max_count |-> MAX_UNDO_STEP_COUNT]
          /\ result' = "Ok"
          /\ Tasks_to_serde(tasks', heap') = Tasks_to_serde(tasks, heap)
     /\ (ghost.undo = <<>> /\ ghost.redo = <<>> /\ ghost.nevict = 0
         /\ ~ghost.stray /\ last'.call \in {"undo", "redo"}) =>
          /\ last'.ok /\ last'.ret = None
          /\ UNCHANGED <<tasks, heap, operations>>]_vars

\* An object with a history was saved and loaded again, and undo and then
\* redo were called on the new object: both returned None.
C35_Witness ==
  /\ ghost.discarded /\ ghost.undo = <<>> /\ ghost.redo = <<>>
  /\ last.call = "redo" /\ last.ok /\ last.ret = None
  /\ operations.undo = <<>> /\ operations.redo = <<>>
  /\ nops > 0 /\ Cur = ghost.init /\ tasks # <<>>

\* C36 as stated: whenever a handler of the task list invokes
\* selected_task (for ' ' and 'e' always, for 'd' and 'J' when the query
\* has tasks, for 'K' when it has tasks and the selection is not the first
\* one), the query has tasks and the selection is the index of one of them.
C36_SelectionValidWhenUsed ==
  [][(\/ last'.call \in {"space", "e"}
      \/ last'.call \in {"d", "J"} /\ tasks # <<>>
      \/ last'.call = "K" /\ tasks # <<>> /\ ui.selection > 0) =>
       /\ tasks # <<>>
       /\ ui.selection < Len(tasks)]_vars

\* The task the selection of the task list points at.
Selected(db, box) == db[box.selection + 1]

\* C37: 'J' pressed with a task after the selected one moves the selected
\* task right after it and increments the selection; 'K' pressed with the
\* selection above 0 moves the selected task right before the previous one
\* and decrements the selection.  Either way the move is recorded, the
\* other tasks keep their order, an update event is emitted and the
\* selection points at the task it pointed at before the key.  'J' at the
\* last position, 'K' at position 0 and either key on an empty query
\* return no event and change neither the tasks nor the selection nor the
\* history.
C37_MoveKeysFollowTask ==
  [][/\ (last'.call = "J" /\ ui.selection + 1 < Len(tasks)) =>
          /\ last'.ok /\ "Updated" \in Range(last'.ret)
          /\ ui'.selection = ui.selection + 1
          /\ Len(tasks') = Len(tasks)
          /\ Selected(tasks', ui') = Selected(tasks, ui)
          /\ tasks'[ui.selection + 1] = tasks[ui.selection + 2]
          /\ Without(tasks', Selected(tasks, ui))
               = Without(tasks, Selected(tasks, ui))
          /\ heap' = heap
          /\ Top(operations'.undo).kind = "Move"
          /\ Top(operations'.undo).task = Some(Selected(tasks, ui))
     /\ (last'.call = "K" /\ ui.selection > 0 /\ tasks # <<>>) =>
          /\ last'.ok /\ "Updated" \in Range(last'.ret)
          /\ ui'.selection = ui.selection - 1
          /\ Len(tasks') = Len(tasks)
          /\ Selected(tasks', ui') = Selected(tasks, ui)
          /\ tasks'[ui.selection + 1] = tasks[ui.selection]
          /\ Without(tasks', Selected(tasks, ui))
               = Without(tasks, Selected(tasks, ui))
          /\ heap' = heap
          /\ Top(operations'.undo).kind = "Move"
          /\ Top(operations'.undo).task = Some(Selected(tasks, ui))
     /\ (\/ last'.call = "J" /\ ui.selection + 1 >= Len(tasks)
         \/ last'.call = "K" /\ (ui.selection = 0 \/ tasks = <<>>)) =>
          /\ last'.ok /\ last'.ret = None
          /\ UNCHANGED <<tasks, heap, operations, ui, nops>>]_vars

\* 'J' was pressed on the first of the two loaded tasks: it is the second
\* one now, and it is the selected one.
C37_Witness ==
  /\ last.call = "J" /\ last.ok /\ last.ret = <<"Updated">>
  /\ nops = 1 /\ ui.selection = 1
  /\ Len(tasks) = 2 /\ Len(ghost.init) = 2
  /\ tasks[2] = ghost.init[1].task /\ tasks[1] = ghost.init[2].task
  /\ Top(operations.undo).kind = "Move"
  /\ Top(operations.undo).to = After(tasks[1])

\* C38: sanitize_selection(selection, count) clamps the selection to the
\* indices of count entries: with count > 0 it is the selection itself when
\* that is an index, 0 when it is negative and count - 1 when it is count
\* or more; with count = 0 it is 0.  So the selection of the tab bar is
\* always the index of one of its tabs, and 'h' and 'l' emit an update
\* event exactly when they changed the selection.
C38_SanitizeClamps ==
  [][/\ last'.call \in {"sanitize_selection", "h", "l"} =>
          LET selection == Unwrap(ui'.asked).selection
              count == Unwrap(ui'.asked).count
              clamped == IF last'.call = "sanitize_selection" THEN last'.ret
                         ELSE ui'.selection
          IN /\ (count > 0 /\ 0 <= selection /\ selection < count) =>
                  clamped = selection
             /\ (count > 0 /\ selection < 0) => clamped = 0
             /\ (count > 0 /\ selection >= count) => clamped = count - 1
             /\ count = 0 => clamped = 0
     /\ ui'.selection < Len(ui'.tabs)
     /\ last'.call \in {"h", "l"} =>
          /\ Unwrap(ui'.asked).count = Len(ui.tabs)
          /\ ("Updated" \in Range(last'.ret)) = (ui'.selection # ui.selection)
          /\ ui'.tabs = ui.tabs]_vars

\* sanitize_selection was asked for a selection past the last of several
\* entries and gave the last index.
C38_Witness ==
  /\ last.call = "sanitize_selection"
  /\ IsSome(ui.asked)
  /\ Unwrap(ui.asked).count > 1
  /\ Unwrap(ui.asked).selection > Unwrap(ui.asked).count
  /\ last.ret = Unwrap(ui.asked).count - 1

\* C39 as stated: whenever a Config that Config::with_serde produced is
\* converted with to_serde, its selected view index is absent or smaller
\* than its number of views.
C39_SelectedInRange ==
  [][last'.call = "to_serde" =>
       /\ IsSome(ui.config)
       /\ Config_selected_valid(Unwrap(ui.config))]_vars

\* C40: Config::with_serde never yields a Config without views.  From a
\* configuration that lists no views it makes exactly one view, named
\* "all" and with no filter; from one that lists views it makes exactly
\* those views, in their order; it fails, and there is no Config, when the
\* toggle tag identifier has no template (and when a view cannot be
\* instantiated), and only then.
C40_NeverWithoutViews ==
  [][last'.call = "with_serde" =>
       LET given == Unwrap(ui'.given)
           bad_view == \E i \in 1..Len(given.views) :
                         \E j \in 1..Len(given.views[i].view.lits) :
                           ~Instantiable(given.views[i].view.lits[j])
           bad_tag == IsSome(given.toggle_tag)
                      /\ ~Instantiable(Unwrap(given.toggle_tag))
       IN /\ last'.ok = (~bad_view /\ ~bad_tag)
          /\ last'.ok = IsSome(ui'.config)
          /\ bad_tag => (~last'.ok /\ ui'.config = None)
          /\ last'.ok =>
               LET views == Unwrap(ui'.config).views
               IN /\ views # <<>>
                  /\ given.views = <<>> =>
                       /\ Len(views) = 1
                       /\ views[1].view.name = "all"
                       /\ views[1].view.lits = <<>>
                       /\ views[1].selected = None
                  /\ given.views # <<>> =>
                       /\ Len(views) = Len(given.views)
                       /\ \A i \in 1..Len(views) :
                            /\ View_to_serde(views[i].view)
                                 = given.views[i].view
                            /\ views[i].selected = given.views[i].selected]_vars

\* A configuration with a toggle tag and no views was loaded: the Config
\* has the one view "all".
C40_Witness ==
  /\ last.call = "with_serde" /\ last.ok
  /\ IsSome(ui.given) /\ IsSome(ui.config)
  /\ Unwrap(ui.given).views = <<>>
  /\ Unwrap(ui.given).toggle_tag = Some(COMPLETE_TAG)
  /\ Len(Unwrap(ui.config).views) = 1
  /\ Unwrap(ui.config).views[1].view.name = "all"

====
